---------------------------- MODULE Spec2Model ----------------------------
(***************************************************************************)
(* State-machine model of the four-agent enrichment pipeline:              *)
(* QueryAgent, ScraperAgent, UpdateAgent, SchemaAgent and the runner that  *)
(* sequences them per ticket.                                              *)
(*                                                                         *)
(* Representation of Python values                                         *)
(*   str            a sequence of one-character strings, <<"a","b">>       *)
(*   dynamic value  a record tagged by its runtime type in field t:        *)
(*                  [t |-> "none"], [t |-> "str", s |-> <<...>>],          *)
(*                  [t |-> "int", i |-> 42], [t |-> "float", f |-> "12.5"],*)
(*                  [t |-> "bool", b |-> TRUE], [t |-> "list", items |-> s]*)
(*   dict           a function from key to value; a missing key is a key   *)
(*                  outside its DOMAIN                                     *)
(*   exception      the variable raised, and a stage that stops            *)
(***************************************************************************)
EXTENDS Integers, Sequences, FiniteSets, TLC

(***************************************************************************)
(* Text                                                                    *)
(***************************************************************************)
LowerChars == <<"a","b","c","d","e","f","g","h","i","j","k","l","m",
                "n","o","p","q","r","s","t","u","v","w","x","y","z">>
UpperChars == <<"A","B","C","D","E","F","G","H","I","J","K","L","M",
                "N","O","P","Q","R","S","T","U","V","W","X","Y","Z">>
DigitChars == <<"0","1","2","3","4","5","6","7","8","9">>

\* The characters of the model in code-point order (str comparison, sorted()).
Alphabet == <<"\t", "\n", " ", "!", "\"", "#", "$", "%", "&", "'", "(", ")", "*",
              "+", ",", "-", ".", "/">> \o DigitChars
            \o <<":", ";", "<", "=", ">", "?", "@">> \o UpperChars
            \o <<"[", "]", "^", "_">> \o LowerChars
            \o <<"{", "|", "}", "~">>

Range(s) == {s[i] : i \in DOMAIN s}

\* a local variable: f is [x \in {value} |-> body], the body with x bound to value
With(f) == f[CHOOSE x \in DOMAIN f : TRUE]

IndexIn(c, s) == IF c \in Range(s) THEN CHOOSE i \in DOMAIN s : s[i] = c ELSE 0

Ord(c) == IndexIn(c, Alphabet)

\* str.isspace for one character
IsSpace(c) == c \in {" ", "\t", "\n"}

\* str.upper / str.lower for one character
UpperChar(c) == IF c \in Range(LowerChars) THEN UpperChars[IndexIn(c, LowerChars)] ELSE c

LowerChar(c) == IF c \in Range(UpperChars) THEN LowerChars[IndexIn(c, UpperChars)] ELSE c

str_upper(s) == [i \in 1..Len(s) |-> UpperChar(s[i])]

str_lower(s) == [i \in 1..Len(s) |-> LowerChar(s[i])]

RECURSIVE LStripChars(_, _)
LStripChars(s, cs) ==
    IF s # <<>> /\ Head(s) \in cs THEN LStripChars(Tail(s), cs) ELSE s

RECURSIVE RStripChars(_, _)
RStripChars(s, cs) ==
    IF s # <<>> /\ s[Len(s)] \in cs
    THEN RStripChars(SubSeq(s, 1, Len(s) - 1), cs)
    ELSE s

\* str.strip(chars)
StripChars(s, cs) == RStripChars(LStripChars(s, cs), cs)

\* str.strip()
str_strip(s) == StripChars(s, {" ", "\t", "\n"})

\* str.split(sep) for a one-character separator: the pieces, empty ones kept
RECURSIVE SplitAcc(_, _, _)
SplitAcc(s, sep, cur) ==
    IF s = <<>> THEN <<cur>>
    ELSE IF Head(s) = sep THEN <<cur>> \o SplitAcc(Tail(s), sep, <<>>)
    ELSE SplitAcc(Tail(s), sep, Append(cur, Head(s)))

str_split(s, sep) == SplitAcc(s, sep, <<>>)

\* re.sub(r"[^<keep>]+", rep, s): every maximal run of characters outside
\* keep becomes one rep
RECURSIVE DropUntil(_, _)
DropUntil(s, keep) ==
    IF s # <<>> /\ Head(s) \notin keep THEN DropUntil(Tail(s), keep) ELSE s

RECURSIVE ReSubRuns(_, _, _)
ReSubRuns(s, keep, rep) ==
    IF s = <<>> THEN <<>>
    ELSE IF Head(s) \in keep THEN <<Head(s)>> \o ReSubRuns(Tail(s), keep, rep)
    ELSE rep \o ReSubRuns(DropUntil(s, keep), keep, rep)

UpperAlnum == Range(UpperChars) \cup Range(DigitChars)

LowerAlnum == Range(LowerChars) \cup Range(DigitChars)

\* s1 < s2 in Python's string order
RECURSIVE StrLess(_, _)
StrLess(a, b) ==
    IF b = <<>> THEN FALSE
    ELSE IF a = <<>> THEN TRUE
    ELSE IF Head(a) = Head(b) THEN StrLess(Tail(a), Tail(b))
    ELSE Ord(Head(a)) < Ord(Head(b))

\* the elements of a finite set of strings as a sorted list: sorted(keys)
RECURSIVE SortedList(_)
SortedList(S) ==
    IF S = {} THEN <<>>
    ELSE LET m == CHOOSE x \in S : \A y \in S \ {x} : StrLess(x, y)
         IN <<m>> \o SortedList(S \ {m})

(***************************************************************************)
(* Python values                                                           *)
(***************************************************************************)
PyNone == [t |-> "none"]

StrV(s) == [t |-> "str", s |-> s]

IntV(i) == [t |-> "int", i |-> i]

FloatV(f) == [t |-> "float", f |-> f]

BoolV(b) == [t |-> "bool", b |-> b]

ListV(items) == [t |-> "list", items |-> items]

\* isinstance(x, dict): a dict with fixed keys is an untagged function, a dict
\* whose keys are data is [t |-> "dict", items |-> <<key, value>> pairs in
\* insertion order]
IsDict(x) == "t" \notin DOMAIN x \/ x.t = "dict"

\* an insertion-ordered dict from its pairs
DictV(items) == [t |-> "dict", items |-> items]

\* list(d.keys()) of an insertion-ordered dict
DictKeys(d) == [i \in DOMAIN d.items |-> d.items[i][1]]

\* d.get(key) of an insertion-ordered dict
DictGet(d, k) ==
    IF \E i \in DOMAIN d.items : d.items[i][1] = k
    THEN d.items[CHOOSE i \in DOMAIN d.items : d.items[i][1] = k][2]
    ELSE PyNone

\* dict.get(key)
Get(d, k) == IF k \in DOMAIN d THEN d[k] ELSE PyNone

\* {} as a dict
EmptyDict == [k \in {} |-> PyNone]

\* d[k] = v on a copy
Put(d, k, v) == (k :> v) @@ d

\* d with key k set to v when keep holds
PutIf(keep, d, k, v) == IF keep THEN Put(d, k, v) ELSE d

\* dict.pop(k, None) on a copy
Pop(d, k) == [x \in DOMAIN d \ {k} |-> d[x]]

\* str(n) of a natural number
RECURSIVE NatToStr(_)
NatToStr(n) ==
    IF n < 10 THEN <<DigitChars[n + 1]>>
    ELSE NatToStr(n \div 10) \o <<DigitChars[(n % 10) + 1]>>

\* str(v) of a scalar dynamic value (a float carries its repr)
PyStr(v) ==
    CASE v.t = "none" -> <<"N","o","n","e">>
      [] v.t = "str" -> v.s
      [] v.t = "int" -> NatToStr(v.i)
      [] v.t = "float" -> v.f
      [] v.t = "bool" -> IF v.b THEN <<"T","r","u","e">> ELSE <<"F","a","l","s","e">>

\* truthiness of a dynamic value
Truthy(v) ==
    CASE v.t = "none" -> FALSE
      [] v.t = "str" -> v.s # <<>>
      [] v.t = "int" -> v.i # 0
      [] v.t = "float" -> v.f # <<"0",".","0">>
      [] v.t = "bool" -> v.b
      [] v.t \in {"list", "dict"} -> v.items # <<>>
      [] OTHER -> TRUE

(***************************************************************************)
(* UpdateAgent (the Fact Reconciler)                                       *)
(***************************************************************************)
\* UpdateAgent._has_value testing for None alone
UpdateAgent_has_value_unless_none(value) == value.t # "none"

\* UpdateAgent._has_value
UpdateAgent_has_value(value) ==
    CASE value.t = "none" -> FALSE
      [] value.t = "str" -> str_strip(value.s) # <<>>
      [] value.t \in {"list", "dict"} -> Len(value.items) > 0
      [] value.t = "set" -> value.items # {}
      [] OTHER -> TRUE

\* UpdateAgent._normalize_label
UpdateAgent_normalize_label(label) ==
    StripChars(ReSubRuns(str_upper(label), UpperAlnum, <<"_">>), {"_"})

\* UpdateAgent._tokens_from_label
UpdateAgent_tokens_from_label(label) ==
    LET normalized == UpdateAgent_normalize_label(label)
        parts == str_split(normalized, "_")
    IN IF normalized = <<>> THEN {}
       ELSE {str_lower(parts[i]) : i \in {j \in DOMAIN parts : parts[j] # <<>>}}

\* UpdateAgent._build_column_lookup; columns is the set in the order the
\* loop visits it (a later column overwrites an equal key)
RECURSIVE UpdateAgent_build_column_lookup(_)
UpdateAgent_build_column_lookup(columns) ==
    IF columns = <<>> THEN EmptyDict
    ELSE LET lookup == UpdateAgent_build_column_lookup(SubSeq(columns, 1, Len(columns) - 1))
             column == columns[Len(columns)]
             upper == str_upper(column)
             sanitized == StripChars(ReSubRuns(upper, UpperAlnum, <<"_">>), {"_"})
             with_upper == Put(lookup, upper, upper)
         IN IF column = <<>> THEN lookup
            ELSE IF sanitized # <<>> THEN Put(with_upper, sanitized, upper)
            ELSE with_upper

\* UpdateAgent._build_column_tokens
UpdateAgent_build_column_tokens(columns) ==
    LET kept == {c \in Range(columns) : UpdateAgent_normalize_label(c) # <<>>}
    IN [k \in {str_upper(c) : c \in kept} |->
            UpdateAgent_tokens_from_label(CHOOSE c \in kept : str_upper(c) = k)]

\* the orders in which a set can be iterated
Orders(S) == {o \in [1..Cardinality(S) -> S] : Range(o) = S}

\* the set UpdateAgent.__post_init__ stores as allowed_fields
UpdateAgent_normalized_fields(allowed_fields) ==
    IF allowed_fields.t = "none" THEN {}
    ELSE {str_upper(str_strip(f)) : f \in {g \in allowed_fields.items : str_strip(g) # <<>>}}

\* UpdateAgent.__post_init__: allowed_fields is PyNone or [t |-> "set", items |-> S];
\* order is the order in which the normalized set is iterated
UpdateAgent_post_init(allowed_fields, llm_client, order) ==
    [allowed_fields |-> IF allowed_fields.t = "none" THEN PyNone
                        ELSE [t |-> "set", items |-> UpdateAgent_normalized_fields(allowed_fields)],
     llm_client |-> llm_client,
     column_lookup |-> UpdateAgent_build_column_lookup(order),
     column_tokens |-> UpdateAgent_build_column_tokens(order)]

\* UpdateAgent._coerce_candidate_columns
UpdateAgent_coerce_candidate_columns(raw) ==
    LET values == IF raw.t = "list" THEN raw.items ELSE <<raw>>
        text(v) == IF v.t = "none" THEN <<>> ELSE str_strip(PyStr(v))
        texts == [i \in DOMAIN values |-> text(values[i])]
    IN IF raw.t = "none" THEN <<>>
       ELSE SelectSeq(texts, LAMBDA x : x # <<>>)

\* UpdateAgent._resolve_candidate_column
UpdateAgent_resolve_candidate_column(self, candidate) ==
    LET normalized == UpdateAgent_normalize_label(candidate)
    IN IF normalized = <<>> THEN PyNone
       ELSE IF normalized \in DOMAIN self.column_lookup
            THEN StrV(self.column_lookup[normalized])
            ELSE PyNone

\* the first element of xs that F maps to something other than None, mapped
RECURSIVE FirstResolved(_, _)
FirstResolved(resolved, i) ==
    IF i > Len(resolved) THEN PyNone
    ELSE IF resolved[i].t # "none" THEN resolved[i]
    ELSE FirstResolved(resolved, i + 1)

\* UpdateAgent._match_fact_to_column trusting hints and concept whatever
\* allowed_fields is
UpdateAgent_match_fact_trusting(self, concept, candidate_columns) ==
    LET normalized_concept == UpdateAgent_normalize_label(concept)
        open_hints == [i \in DOMAIN candidate_columns |->
                         LET n == UpdateAgent_normalize_label(candidate_columns[i])
                         IN IF n # <<>> THEN StrV(n) ELSE PyNone]
    IN IF FirstResolved(open_hints, 1).t # "none" THEN FirstResolved(open_hints, 1)
       ELSE IF normalized_concept # <<>> THEN StrV(normalized_concept) ELSE PyNone

\* UpdateAgent._match_fact_to_column taking the first of several columns whose
\* tokens contain the concept's
UpdateAgent_match_fact_first_token_match(self, concept, candidate_columns) ==
    LET normalized_concept == UpdateAgent_normalize_label(concept)
        closed_hints == [i \in DOMAIN candidate_columns |->
                           UpdateAgent_resolve_candidate_column(self, candidate_columns[i])]
        concept_tokens == UpdateAgent_tokens_from_label(concept)
        matches == {column \in DOMAIN self.column_tokens :
                        concept_tokens \subseteq self.column_tokens[column]}
    IN IF self.allowed_fields.t = "none"
       THEN UpdateAgent_match_fact_trusting(self, concept, candidate_columns)
       ELSE IF FirstResolved(closed_hints, 1).t # "none" THEN FirstResolved(closed_hints, 1)
       ELSE IF normalized_concept # <<>> /\ normalized_concept \in DOMAIN self.column_lookup
            THEN StrV(self.column_lookup[normalized_concept])
       ELSE IF concept_tokens # {} /\ matches # {}
            THEN StrV(CHOOSE column \in matches : TRUE)
       ELSE PyNone

\* UpdateAgent._match_fact_to_column: StrV(column) or PyNone
UpdateAgent_match_fact_to_column(self, concept, candidate_columns) ==
    LET normalized_concept == UpdateAgent_normalize_label(concept)
        open_hints == [i \in DOMAIN candidate_columns |->
                         LET n == UpdateAgent_normalize_label(candidate_columns[i])
                         IN IF n # <<>> THEN StrV(n) ELSE PyNone]
        closed_hints == [i \in DOMAIN candidate_columns |->
                           UpdateAgent_resolve_candidate_column(self, candidate_columns[i])]
        concept_tokens == UpdateAgent_tokens_from_label(concept)
        matches == {column \in DOMAIN self.column_tokens :
                        concept_tokens \subseteq self.column_tokens[column]}
    IN IF self.allowed_fields.t = "none"
       THEN IF FirstResolved(open_hints, 1).t # "none" THEN FirstResolved(open_hints, 1)
            ELSE IF normalized_concept # <<>> THEN StrV(normalized_concept) ELSE PyNone
       ELSE IF FirstResolved(closed_hints, 1).t # "none" THEN FirstResolved(closed_hints, 1)
       ELSE IF normalized_concept # <<>> /\ normalized_concept \in DOMAIN self.column_lookup
            THEN StrV(self.column_lookup[normalized_concept])
       ELSE IF concept_tokens # {} /\ Cardinality(matches) = 1
            THEN StrV(CHOOSE column \in matches : TRUE)
       ELSE PyNone

\* UpdateAgent._coerce_fact_sequence: facts is PyNone, a list (ListV) of
\* entries, or a flat mapping [t |-> "dict", items |-> <<key, value>> pairs]
UpdateAgent_coerce_fact_sequence(facts) ==
    CASE facts.t = "none" -> <<>>
      [] facts.t = "dict" ->
            [i \in DOMAIN facts.items |->
                [concept |-> StrV(facts.items[i][1]), value |-> facts.items[i][2]]]
      [] OTHER -> SelectSeq(facts.items, IsDict)

\* the body of the loop of apply_enrichment forgetting the facts it matches
\* to no column
UpdateAgent_apply_fact_dropping_unmatched(self, acc, fact) ==
    With([concept \in {str_strip(IF Truthy(Get(fact, "concept"))
                                 THEN PyStr(Get(fact, "concept")) ELSE <<>>)} |->
    With([value \in {Get(fact, "value")} |->
    With([candidates \in {UpdateAgent_coerce_candidate_columns(
                              Get(fact, "candidate_columns"))} |->
    IF ~UpdateAgent_has_value(value)
    THEN [acc EXCEPT !.empty_facts =
            Append(@, [concept |-> concept, candidate_columns |-> candidates])]
    ELSE
    With([column \in {UpdateAgent_match_fact_to_column(self, concept, candidates)} |->
    IF column.t # "none"
    THEN [acc EXCEPT
            !.applied_updates = Put(@, column.s, value),
            !.applied_details =
                Append(@, [concept |-> IF concept # <<>> THEN concept ELSE column.s,
                           column |-> column.s,
                           value |-> value,
                           candidates |-> candidates])]
    ELSE acc
    ])])])])

\* the body of the loop of apply_enrichment: what one fact adds to the
\* accumulated applied_updates, applied_details, unmatched_facts, empty_facts
UpdateAgent_apply_fact(self, acc, fact) ==
    With([concept \in {str_strip(IF Truthy(Get(fact, "concept"))
                                 THEN PyStr(Get(fact, "concept")) ELSE <<>>)} |->
    With([value \in {Get(fact, "value")} |->
    With([candidates \in {UpdateAgent_coerce_candidate_columns(
                              Get(fact, "candidate_columns"))} |->
    IF ~UpdateAgent_has_value(value)
    THEN [acc EXCEPT !.empty_facts =
            Append(@, [concept |-> concept, candidate_columns |-> candidates])]
    ELSE
    With([column \in {UpdateAgent_match_fact_to_column(self, concept, candidates)} |->
    IF column.t # "none"
    THEN [acc EXCEPT
            !.applied_updates = Put(@, column.s, value),
            !.applied_details =
                Append(@, [concept |-> IF concept # <<>> THEN concept ELSE column.s,
                           column |-> column.s,
                           value |-> value,
                           candidates |-> candidates])]
    ELSE [acc EXCEPT !.unmatched_facts =
            Append(@, [concept |-> concept, value |-> value,
                       candidate_columns |-> candidates])]
    ])])])])

\* the loop of apply_enrichment over fact_list[i..], from the accumulated acc
RECURSIVE UpdateAgent_apply_loop(_, _, _, _)
UpdateAgent_apply_loop(self, fact_list, i, acc) ==
    IF i > Len(fact_list) THEN acc
    ELSE UpdateAgent_apply_loop(self, fact_list, i + 1,
                                UpdateAgent_apply_fact(self, acc, fact_list[i]))

\* _extract_text_response (update_agent.py): response is the list of the
\* text blocks of the response's output items
UpdateAgent_extract_text_response(response) ==
    LET texts == SelectSeq(response, LAMBDA x : x # <<>>)
    IN IF texts = <<>> THEN PyNone ELSE StrV(str_strip(texts[1]))

\* UpdateAgent._generate_reasoning: reply is [raises |-> BOOLEAN, response |-> blocks]
UpdateAgent_generate_reasoning(self, reply) ==
    IF ~self.llm_client THEN PyNone
    ELSE IF reply.raises THEN PyNone
    ELSE UpdateAgent_extract_text_response(reply.response)

\* UpdateAgent.apply_enrichment: the summary it returns and the calls it makes
\* on the record writer, the escalator and the completion client
UpdateAgent_apply_enrichment(self, ticket_id, record_id, facts, reply) ==
    With([fact_list \in {UpdateAgent_coerce_fact_sequence(facts)} |->
    With([base \in {[ticket_id |-> ticket_id, record_id |-> record_id,
          fact_count |-> Len(fact_list)]} |->
    With([acc \in {UpdateAgent_apply_loop(self, fact_list, 1,
            [applied_updates |-> EmptyDict, applied_details |-> <<>>,
             unmatched_facts |-> <<>>, empty_facts |-> <<>>])} |->
    With([with_status \in {IF DOMAIN acc.applied_updates # {}
         THEN Put(Put(Put(base, "status", "updated"),
                      "applied_columns", SortedList(DOMAIN acc.applied_updates)),
                  "applied_facts", acc.applied_details)
         ELSE Put(base, "status", "skipped")} |->
    With([escalation_payload \in {PutIf(acc.empty_facts # <<>>,
               PutIf(acc.unmatched_facts # <<>>, EmptyDict,
                     "unmatched_facts", acc.unmatched_facts),
               "empty_facts", acc.empty_facts)} |->
    With([reasoning \in {UpdateAgent_generate_reasoning(self, reply)} |->
        IF fact_list = <<>>
        THEN [summary |-> Put(base, "status", "skipped"),
              update_record |-> <<>>, escalate |-> <<>>, generate |-> 0]
        ELSE [summary |->
                PutIf(Truthy(reasoning),
                      PutIf(DOMAIN escalation_payload # {}, with_status,
                            "escalated", escalation_payload),
                      "reasoning", IF Truthy(reasoning) THEN reasoning.s ELSE <<>>),
              update_record |->
                IF DOMAIN acc.applied_updates # {}
                THEN <<[record_id |-> record_id, payload |-> acc.applied_updates]>>
                ELSE <<>>,
              escalate |->
                IF DOMAIN escalation_payload # {}
                THEN <<[ticket_id |-> ticket_id, rationale |-> escalation_payload]>>
                ELSE <<>>,
              generate |-> IF self.llm_client THEN 1 ELSE 0]])])])])])])

(***************************************************************************)
(* SchemaAgent (the Schema Proposer)                                       *)
(***************************************************************************)
\* str.replace(old, new) for a one-character old
RECURSIVE str_replace_char(_, _, _)
str_replace_char(s, old, new) ==
    IF s = <<>> THEN <<>>
    ELSE (IF Head(s) = old THEN new ELSE <<Head(s)>>) \o str_replace_char(Tail(s), old, new)

\* repr(v) of a scalar dynamic value
ScalarRepr(v) == IF v.t = "str" THEN <<"'">> \o v.s \o <<"'">> ELSE PyStr(v)

\* ", ".join(repr(x) for x in items[i..])
RECURSIVE JoinReprs(_, _)
JoinReprs(items, i) ==
    IF i > Len(items) THEN <<>>
    ELSE (IF i > 1 THEN <<",", " ">> ELSE <<>>) \o ScalarRepr(items[i]) \o JoinReprs(items, i + 1)

\* repr(v) of a scalar or of a list of scalars
PyRepr(v) == IF v.t = "list" THEN <<"[">> \o JoinReprs(v.items, 1) \o <<"]">> ELSE ScalarRepr(v)

\* SchemaAgent._normalize_name
SchemaAgent_normalize_name(raw_name) ==
    str_upper(str_replace_char(str_replace_char(str_lower(str_strip(raw_name)),
                                                " ", <<"_">>), "-", <<"_">>))

\* max_length in SchemaAgent._describe_source
DescribeMaxLength == 80

\* SchemaAgent._describe_source
SchemaAgent_describe_source(sample) ==
    LET sample_repr == PyRepr(sample)
        cut == IF Len(sample_repr) > DescribeMaxLength
               THEN SubSeq(sample_repr, 1, DescribeMaxLength - 3) \o <<".",".",".">>
               ELSE sample_repr
    IN <<"I","n","f","e","r","r","e","d"," ","f","r","o","m"," ","s","a","m","p","l","e"," ","v","a","l","u","e"," ">> \o cut

\* SchemaAgent._infer_sql_type
SchemaAgent_infer_sql_type(sample) ==
    CASE sample.t = "bool" -> <<"B","O","O","L","E","A","N">>
      [] sample.t = "int" -> <<"I","N","T","E","G","E","R">>
      [] sample.t = "float" -> <<"N","U","M","E","R","I","C">>
      [] sample.t \in {"dict", "list"} -> <<"J","S","O","N","B">>
      [] OTHER -> <<"T","E","X","T">>

\* _extract_schema_json: response is the list of what json.loads gives for each
\* text block (PyNone for a block that does not decode); the first list wins
RECURSIVE SchemaAgent_extract_schema_json(_)
SchemaAgent_extract_schema_json(response) ==
    IF response = <<>> THEN <<>>
    ELSE IF Head(response).t = "list" THEN SelectSeq(Head(response).items, IsDict)
    ELSE SchemaAgent_extract_schema_json(Tail(response))

\* SchemaAgent._generate_proposals: reply is [raises, response]
SchemaAgent_generate_proposals(self, unknown_fields, reply) ==
    LET payload == SchemaAgent_extract_schema_json(reply.response)
        data_type(item) == IF Truthy(Get(item, "data_type")) THEN Get(item, "data_type")
                           ELSE Get(item, "datatype")
        usable == SelectSeq(payload,
                     LAMBDA item : Truthy(Get(item, "name")) /\ Truthy(data_type(item)))
    IN IF ~self.llm_client \/ reply.raises THEN <<>>
       ELSE [i \in DOMAIN usable |->
               [name |-> SchemaAgent_normalize_name(usable[i].name.s),
                data_type |-> str_upper(PyStr(data_type(usable[i]))),
                nullable |-> IF "nullable" \in DOMAIN usable[i]
                             THEN Truthy(usable[i].nullable) ELSE TRUE,
                description |-> IF "description" \in DOMAIN usable[i]
                                THEN usable[i].description ELSE StrV(<<>>)]]

\* the static fallback of propose_change: one proposal per unknown field
SchemaAgent_static_proposals(unknown_fields) ==
    [i \in DOMAIN unknown_fields.items |->
        [name |-> SchemaAgent_normalize_name(unknown_fields.items[i][1]),
         data_type |-> SchemaAgent_infer_sql_type(unknown_fields.items[i][2]),
         nullable |-> TRUE,
         description |-> StrV(SchemaAgent_describe_source(unknown_fields.items[i][2]))]]

\* the statement propose_change emits for one proposal
SchemaAgent_statement(self, proposal) ==
    <<"A","L","T","E","R"," ","T","A","B","L","E"," ">> \o self.table_name \o <<" ","A","D","D"," ","C","O","L","U","M","N"," ","I","F"," ","N","O","T"," ","E","X","I","S","T","S"," ","\"">>
        \o proposal.name \o <<"\""," ">> \o proposal.data_type \o <<";">>

\* the fields propose_change reads from the evidence summary
SchemaAgent_unknown_fields(evidence_summary) ==
    IF "unknown_fields" \in DOMAIN evidence_summary
    THEN evidence_summary["unknown_fields"]
    ELSE [t |-> "dict", items |-> <<>>]

\* SchemaAgent.propose_change: the proposal it returns and its calls on the
\* migration writer (which answers path) and the completion client
SchemaAgent_propose_change(self, ticket_id, evidence_summary, reply, path) ==
    LET unknown_fields == SchemaAgent_unknown_fields(evidence_summary)
        generated == SchemaAgent_generate_proposals(self, unknown_fields, reply)
        proposals == IF generated # <<>> THEN generated
                     ELSE SchemaAgent_static_proposals(unknown_fields)
        statements == [i \in DOMAIN proposals |-> SchemaAgent_statement(self, proposals[i])]
        migration_name == <<"t","i","c","k","e","t","_">> \o str_lower(ticket_id)
    IN IF unknown_fields.items = <<>>
       THEN [proposal |-> [ticket_id |-> ticket_id, columns |-> <<>>,
                           migration_path |-> PyNone, migration_statements |-> <<>>,
                           notes |-> <<"N","o"," ","u","n","k","n","o","w","n"," ","f","i","e","l","d","s"," ","s","u","p","p","l","i","e","d">>],
             write_migration |-> <<>>, generate |-> 0]
       ELSE [proposal |-> [ticket_id |-> ticket_id, columns |-> proposals,
                           migration_path |-> StrV(path),
                           migration_statements |-> statements],
             write_migration |-> <<[name |-> migration_name, statements |-> statements]>>,
             generate |-> IF self.llm_client THEN 1 ELSE 0]

(***************************************************************************)
(* record_utils                                                            *)
(***************************************************************************)
\* DEFAULT_CONTEXT_COLUMNS
DEFAULT_CONTEXT_COLUMNS ==
    << <<"B","U","S","I","N","E","S","S","_","N","A","M","E">>, <<"A","L","T","E","R","N","A","T","E","_","N","A","M","E">>, <<"P","A","R","E","N","T","_","N","A","M","E">>, <<"C","H","A","I","N","_","N","A","M","E">>,
       <<"L","O","C","A","T","I","O","N","_","C","I","T","Y">>, <<"L","O","C","A","T","I","O","N","_","S","T","A","T","E","_","C","O","D","E">>, <<"L","O","C","A","T","I","O","N","_","C","O","U","N","T","R","Y">> >>

\* _MISSING_TEXT
MISSING_TEXT == { <<"n","a">>, <<"n","/","a">>, <<"n","o","n","e">>, <<"n","u","l","l">>, <<"n","a","n">> }

\* _is_missing_text
is_missing_text(value) ==
    str_strip(value) = <<>> \/ str_lower(str_strip(value)) \in MISSING_TEXT

\* build_record_context: row is PyNone or an insertion-ordered dict, columns
\* is PyNone or a list of names; the context is an insertion-ordered dict
build_record_context(row, columns) ==
    LET selected == IF columns.t = "none" THEN DEFAULT_CONTEXT_COLUMNS ELSE columns.items
        keep(column) == LET value == DictGet(row, column)
                        IN /\ value.t # "none"
                           /\ ~(value.t = "str" /\ is_missing_text(value.s))
        kept == SelectSeq(selected, keep)
    IN IF ~Truthy(row) THEN DictV(<<>>)
       ELSE DictV([i \in DOMAIN kept |-> <<kept[i], DictGet(row, kept[i])>>])

\* s.startswith(prefix)
StartsWith(s, prefix) ==
    Len(s) >= Len(prefix) /\ SubSeq(s, 1, Len(prefix)) = prefix

\* looks_like_url
looks_like_url(value) ==
    LET text == str_strip(value)
        lowered == str_lower(text)
        host_candidate == str_split(lowered, "/")[1]
    IN IF text = <<>> THEN FALSE
       ELSE IF StartsWith(lowered, <<"h","t","t","p",":","/","/">>) \/ StartsWith(lowered, <<"h","t","t","p","s",":","/","/">>) THEN TRUE
       ELSE IF StartsWith(lowered, <<"w","w","w",".">>) THEN TRUE
       ELSE IF " " \in Range(lowered) THEN FALSE
       ELSE IF "." \notin Range(lowered) THEN FALSE
       ELSE /\ "." \in Range(host_candidate)
            /\ host_candidate[Len(host_candidate)] # "."
            /\ \E i \in DOMAIN host_candidate : host_candidate[i] \in Range(LowerChars)

\* normalize_url: StrV(url) or PyNone
normalize_url(value) ==
    LET text == str_strip(value)
        lowered == str_lower(text)
        base == IF StartsWith(lowered, <<"h","t","t","p",":","/","/">>) \/ StartsWith(lowered, <<"h","t","t","p","s",":","/","/">>)
                THEN text
                ELSE <<"h","t","t","p","s",":","/","/">> \o text
    IN IF ~looks_like_url(text) THEN PyNone
       ELSE StrV(RStripChars(base, {"/"}))

\* the loop of extract_candidate_urls over columns[i..], urls found so far
RECURSIVE extract_candidate_urls_loop(_, _, _, _)
extract_candidate_urls_loop(row, columns, i, urls) ==
    IF i > Len(columns) THEN urls
    ELSE LET value == DictGet(row, columns[i])
             normalized == IF Truthy(value) THEN normalize_url(PyStr(value)) ELSE PyNone
         IN IF ~Truthy(normalized) \/ normalized.s \in Range(urls)
            THEN extract_candidate_urls_loop(row, columns, i + 1, urls)
            ELSE extract_candidate_urls_loop(row, columns, i + 1, Append(urls, normalized.s))

\* extract_candidate_urls: candidate_fields is PyNone or a list of names
extract_candidate_urls(row, candidate_fields) ==
    IF ~Truthy(row) THEN <<>>
    ELSE extract_candidate_urls_loop(
            row,
            IF candidate_fields.t = "none" THEN DictKeys(row) ELSE candidate_fields.items,
            1, <<>>)

(***************************************************************************)
(* QueryAgent (the Query Resolver)                                         *)
(***************************************************************************)
\* TOKEN_MIN_LENGTH
TOKEN_MIN_LENGTH == 3

\* DEFAULT_SYNONYMS
DEFAULT_SYNONYMS(column) ==
    CASE column = <<"B","U","S","I","N","E","S","S","_","N","A","M","E">> -> { <<"b","u","s","i","n","e","s","s"," ","n","a","m","e">>, <<"n","a","m","e">> }
      [] column = <<"L","O","C","A","T","I","O","N","_","C","I","T","Y">> -> { <<"c","i","t","y">> }
      [] column = <<"R","E","C","O","R","D","_","S","T","A","T","U","S">> -> { <<"s","t","a","t","u","s">> }
      [] column = <<"L","O","C","A","T","I","O","N","_","S","T","A","T","E","_","C","O","D","E">> -> { <<"s","t","a","t","e">>, <<"s","t","a","t","e"," ","c","o","d","e">> }
      [] column = <<"L","O","C","A","T","I","O","N","_","C","O","U","N","T","R","Y">> -> { <<"c","o","u","n","t","r","y">> }
      [] OTHER -> {}

\* sub in s
Contains(s, sub) ==
    \E i \in 0..(Len(s) - Len(sub)) : SubSeq(s, i + 1, i + Len(sub)) = sub

\* re.sub(r"\s+", " ", s)
RECURSIVE CollapseSpaces(_)
CollapseSpaces(s) ==
    IF s = <<>> THEN <<>>
    ELSE IF IsSpace(Head(s)) THEN <<" ">> \o CollapseSpaces(LStripChars(s, {" ", "\t", "\n"}))
    ELSE <<Head(s)>> \o CollapseSpaces(Tail(s))

\* QueryAgent._normalize
QueryAgent_normalize(text) ==
    LET lowered == str_lower(text)
        cleaned == [i \in DOMAIN lowered |->
                      IF lowered[i] \in LowerAlnum \/ IsSpace(lowered[i])
                      THEN lowered[i] ELSE " "]
    IN str_strip(CollapseSpaces(cleaned))

\* QueryAgent._has_value
QueryAgent_has_value(value) ==
    CASE value.t = "none" -> FALSE
      [] value.t = "str" -> str_strip(value.s) # <<>>
      [] value.t \in {"list", "dict"} -> Len(value.items) > 0
      [] OTHER -> TRUE

\* QueryAgent._column_synonyms
QueryAgent_column_synonyms(column) ==
    (DEFAULT_SYNONYMS(str_upper(column))
        \cup {QueryAgent_normalize(column), str_lower(str_replace_char(column, "_", <<" ">>))})
    \ {<<>>}

\* str.split(): the whitespace-separated tokens
str_split_ws(s) == SelectSeq(str_split(CollapseSpaces(s), " "), LAMBDA x : x # <<>>)

\* QueryAgent._column_tokens_in_question (both arguments normalized)
QueryAgent_column_tokens_in_question(column, question) ==
    LET column_tokens == {t \in Range(str_split_ws(column)) : Len(t) >= TOKEN_MIN_LENGTH}
    IN /\ column # <<>>
       /\ column_tokens # {}
       /\ column_tokens \subseteq Range(str_split_ws(question))

\* QueryAgent._column_to_concept
QueryAgent_column_to_concept(column) ==
    LET normalized == QueryAgent_normalize(column)
    IN IF normalized = <<>> THEN str_lower(str_strip(column))
       ELSE str_replace_char(normalized, " ", <<"_">>)

\* QueryAgent._canonicalise_concept
QueryAgent_canonicalise_concept(concept) ==
    StripChars(ReSubRuns(str_lower(str_strip(concept)), LowerAlnum, <<"_">>), {"_"})

\* QueryAgent._build_column_lookup; columns is the set in iteration order
RECURSIVE QueryAgent_build_column_lookup(_)
QueryAgent_build_column_lookup(columns) ==
    IF columns = <<>> THEN EmptyDict
    ELSE LET lookup == QueryAgent_build_column_lookup(SubSeq(columns, 1, Len(columns) - 1))
             column == columns[Len(columns)]
             upper == str_upper(str_strip(column))
             sanitized == StripChars(ReSubRuns(upper, UpperAlnum, <<"_">>), {"_"})
             with_upper == Put(lookup, upper, column)
         IN IF str_strip(column) = <<>> THEN lookup
            ELSE IF sanitized # <<>> THEN Put(with_upper, sanitized, column)
            ELSE with_upper

\* QueryAgent._resolve_column_hint: StrV(name) or PyNone; valid_columns is a
\* lookup, the empty one standing for None as well
QueryAgent_resolve_column_hint(candidate, valid_columns) ==
    LET cleaned == str_strip(candidate)
        upper == str_upper(cleaned)
        sanitized == StripChars(ReSubRuns(upper, UpperAlnum, <<"_">>), {"_"})
    IN IF cleaned = <<>> THEN PyNone
       ELSE IF DOMAIN valid_columns = {} THEN StrV(cleaned)
       ELSE IF upper \in DOMAIN valid_columns THEN StrV(valid_columns[upper])
       ELSE IF sanitized \in DOMAIN valid_columns THEN StrV(valid_columns[sanitized])
       ELSE StrV(cleaned)

\* QueryAgent._normalize_column_candidates over candidates[i..]
RECURSIVE QueryAgent_normalize_column_candidates_loop(_, _, _, _)
QueryAgent_normalize_column_candidates_loop(candidates, valid_columns, i, unique) ==
    IF i > Len(candidates) THEN unique
    ELSE LET resolved == QueryAgent_resolve_column_hint(candidates[i], valid_columns)
         IN IF ~Truthy(resolved) \/ resolved.s \in Range(unique)
            THEN QueryAgent_normalize_column_candidates_loop(candidates, valid_columns, i + 1, unique)
            ELSE QueryAgent_normalize_column_candidates_loop(
                    candidates, valid_columns, i + 1, Append(unique, resolved.s))

\* QueryAgent._normalize_column_candidates
QueryAgent_normalize_column_candidates(candidates, valid_columns) ==
    QueryAgent_normalize_column_candidates_loop(candidates, valid_columns, 1, <<>>)

\* QueryAgent._normalize_sources
QueryAgent_normalize_sources(sources) ==
    LET iterable == IF sources.t = "list" THEN sources.items ELSE <<sources>>
        texts == [i \in DOMAIN iterable |->
                    IF iterable[i].t = "none" THEN <<>> ELSE str_strip(PyStr(iterable[i]))]
    IN SelectSeq(texts, LAMBDA x : x # <<>>)

\* the first n elements of s
Take(s, n) == SubSeq(s, 1, IF n < Len(s) THEN n ELSE Len(s))

\* confidences are counted in tenths: 1.0 is 10, and a float confidence of a
\* payload is [t |-> "tenths", i |-> n]
ConfidenceOne == 10

\* the confidence written when the model supplies none (0.6)
ConfidenceDefault == 6

\* max(0.0, min(1.0, confidence)), in tenths
ClampConfidence(c) == IF c < 0 THEN 0 ELSE IF c > ConfidenceOne THEN ConfidenceOne ELSE c

\* the candidate column names _parse_fact_payload reads from one entry
QueryAgent_entry_candidates(entry) ==
    LET raw_candidates == Get(entry, "candidate_columns")
        usable == SelectSeq(raw_candidates.items,
                     LAMBDA item : item.t \in {"str", "int", "float"}
                                   /\ str_strip(PyStr(item)) # <<>>)
        first_truthy(keys) ==
            IF \E i \in DOMAIN keys : Truthy(Get(entry, keys[i]))
            THEN Get(entry, keys[CHOOSE i \in DOMAIN keys :
                        /\ Truthy(Get(entry, keys[i]))
                        /\ \A j \in 1..(i - 1) : ~Truthy(Get(entry, keys[j]))])
            ELSE Get(entry, keys[Len(keys)])
        column_hint == first_truthy(<<"column_hint", "field", "column", "target">>)
    IN IF raw_candidates.t = "list"
       THEN [i \in DOMAIN usable |-> str_strip(PyStr(usable[i]))]
       ELSE IF column_hint.t = "str" /\ str_strip(column_hint.s) # <<>>
            THEN <<str_strip(column_hint.s)>>
            ELSE <<>>

\* the fact _parse_fact_payload builds from one usable entry
QueryAgent_fact_from_entry(entry, origin, valid_columns) ==
    LET base == [concept |-> StrV(QueryAgent_canonicalise_concept(entry.concept.s)),
                 value |-> entry.value,
                 origin |-> origin]
        confidence == Get(entry, "confidence")
        with_confidence ==
            IF confidence.t = "int"
            THEN Put(base, "confidence", ClampConfidence(confidence.i * ConfidenceOne))
            ELSE IF confidence.t = "tenths"
            THEN Put(base, "confidence", ClampConfidence(confidence.i))
            ELSE IF origin # "dataset" THEN Put(base, "confidence", ConfidenceDefault)
            ELSE base
        notes == Get(entry, "notes")
        with_notes == IF notes.t = "str" /\ str_strip(notes.s) # <<>>
                      THEN Put(with_confidence, "notes", str_strip(notes.s))
                      ELSE with_confidence
        formatted_sources == QueryAgent_normalize_sources(Get(entry, "sources"))
        with_sources == IF formatted_sources # <<>>
                        THEN Put(with_notes, "sources", formatted_sources)
                        ELSE with_notes
        candidate_columns == QueryAgent_entry_candidates(entry)
        normalized == QueryAgent_normalize_column_candidates(candidate_columns, valid_columns)
    IN IF candidate_columns # <<>> /\ normalized # <<>>
       THEN Put(with_sources, "candidate_columns", ListV([i \in DOMAIN normalized |-> StrV(normalized[i])]))
       ELSE with_sources

\* QueryAgent._parse_fact_payload
QueryAgent_parse_fact_payload(payload, origin, valid_columns) ==
    LET facts_section == Get(payload, "facts")
        usable(entry) ==
            /\ IsDict(entry)
            /\ Get(entry, "concept").t = "str"
            /\ QueryAgent_has_value(Get(entry, "value"))
            /\ QueryAgent_canonicalise_concept(entry.concept.s) # <<>>
        entries == SelectSeq(facts_section.items, usable)
    IN IF facts_section.t # "list" THEN <<>>
       ELSE [i \in DOMAIN entries |-> QueryAgent_fact_from_entry(entries[i], origin, valid_columns)]

\* QueryAgent._extract_facts_from_response: response is the list of JSON
\* payloads _iter_json_payloads decodes from it
RECURSIVE QueryAgent_extract_facts_from_response(_, _)
QueryAgent_extract_facts_from_response(response, origin) ==
    IF response = <<>> THEN <<>>
    ELSE With([facts \in {IF IsDict(Head(response))
              THEN QueryAgent_parse_fact_payload(Head(response), origin, EmptyDict)
              ELSE <<>>} |->
            IF facts # <<>> THEN facts
            ELSE QueryAgent_extract_facts_from_response(Tail(response), origin)])

\* the names one key of a column-selection payload resolves to
QueryAgent_selection_from_key(payload, key, lookup) ==
    LET raw_columns == Get(payload, key)
        named == SelectSeq(raw_columns.items, LAMBDA item : item.t # "none")
    IN IF raw_columns.t # "list" THEN <<>>
       ELSE QueryAgent_normalize_column_candidates(
                [i \in DOMAIN named |-> PyStr(named[i])], lookup)

\* QueryAgent._extract_column_selection
RECURSIVE QueryAgent_extract_column_selection(_, _)
QueryAgent_extract_column_selection(response, lookup) ==
    IF response = <<>> THEN <<>>
    ELSE LET payload == Head(response)
             primary == IF IsDict(payload)
                        THEN QueryAgent_selection_from_key(payload, "columns", lookup) ELSE <<>>
             fallback == IF IsDict(payload)
                         THEN QueryAgent_selection_from_key(payload, "column_names", lookup) ELSE <<>>
         IN IF primary # <<>> THEN primary
            ELSE IF fallback # <<>> THEN fallback
            ELSE QueryAgent_extract_column_selection(Tail(response), lookup)

\* the deduplication loop of _infer_columns_from_question over candidates[i..]
RECURSIVE QueryAgent_unique_candidates(_, _, _, _)
QueryAgent_unique_candidates(self, candidates, i, unique) ==
    IF i > Len(candidates) THEN unique
    ELSE LET added == IF candidates[i] \in Range(unique) THEN unique
                      ELSE Append(unique, candidates[i])
         IN IF Len(added) >= self.max_columns THEN added
            ELSE QueryAgent_unique_candidates(self, candidates, i + 1, added)

\* QueryAgent._infer_columns_from_question
QueryAgent_infer_columns_from_question(self, question, row) ==
    LET normalized_question == QueryAgent_normalize(question)
        matches(column) ==
            \/ \E phrase \in QueryAgent_column_synonyms(column) :
                    Contains(normalized_question, phrase)
            \/ QueryAgent_column_tokens_in_question(QueryAgent_normalize(column),
                                                    normalized_question)
        candidates == SelectSeq(DictKeys(row), matches)
    IN IF normalized_question = <<>> THEN <<>>
       ELSE QueryAgent_unique_candidates(self, candidates, 1, <<>>)

\* an event handed to the observer
Event(name, payload) == [event |-> name, payload |-> payload]

\* QueryAgent._build_select_statement
QueryAgent_build_select_statement(self, record_id) ==
    <<"S","E","L","E","C","T"," ","*"," ","F","R","O","M"," ">> \o self.table_name \o <<" ","W","H","E","R","E"," ">> \o self.primary_key_column
        \o <<" ","="," ","'">> \o str_replace_char(record_id, "'", <<"'", "'">>) \o <<"'"," ","L","I","M","I","T"," ","1">>

\* QueryAgent._fetch_record announcing the statement after its result
QueryAgent_fetch_record_logging_late(self, record_id, rows) ==
    LET statement == QueryAgent_build_select_statement(self, record_id)
        found == IF rows # <<>> THEN rows[1] ELSE PyNone
    IN [found |-> found,
        run |-> <<statement>>,
        events |-> << Event("record_fetch_result", [record_id |-> record_id, found |-> Truthy(found)]),
                      Event("sql_executed", [record_id |-> record_id, statement |-> statement]) >>]

\* QueryAgent._fetch_record: rows is what the row store answers
QueryAgent_fetch_record(self, record_id, rows) ==
    LET statement == QueryAgent_build_select_statement(self, record_id)
        found == IF rows # <<>> THEN rows[1] ELSE PyNone
    IN [found |-> found,
        run |-> <<statement>>,
        events |-> << Event("sql_executed", [record_id |-> record_id, statement |-> statement]),
                      Event("record_fetch_result", [record_id |-> record_id, found |-> Truthy(found)]) >>]

\* the loop of _list_available_columns over dataset_columns[i..]
RECURSIVE QueryAgent_dedupe_columns(_, _, _, _)
QueryAgent_dedupe_columns(columns, i, seen, ordered) ==
    IF i > Len(columns) THEN ordered
    ELSE IF str_upper(columns[i]) \in seen
         THEN QueryAgent_dedupe_columns(columns, i + 1, seen, ordered)
         ELSE QueryAgent_dedupe_columns(columns, i + 1, seen \cup {str_upper(columns[i])},
                                        Append(ordered, columns[i]))

\* QueryAgent._list_available_columns
QueryAgent_list_available_columns(self, row) ==
    IF Truthy(self.dataset_columns)
    THEN QueryAgent_dedupe_columns(self.dataset_columns.items, 1, {}, <<>>)
    ELSE DictKeys(row)

\* QueryAgent._select_columns_with_llm: reply is [raises, response]
QueryAgent_select_columns_with_llm(question, lookup, reply) ==
    IF reply.raises
    THEN [columns |-> <<>>,
          events |-> <<Event("llm_error", [stage |-> "column_selection"])>>]
    ELSE With([selected \in {QueryAgent_extract_column_selection(reply.response, lookup)} |->
            [columns |-> selected,
             events |-> IF selected # <<>>
                        THEN <<Event("columns_selected_by_llm", [columns |-> selected])>>
                        ELSE <<>>]])

\* QueryAgent._select_columns without the heuristic matching of the question
\* against the column names
QueryAgent_select_columns_by_completion_only(self, question, row, available_columns, order, reply) ==
    With([lookup \in {QueryAgent_build_column_lookup(order)} |->
    With([by_llm \in {IF self.llm_client /\ available_columns # <<>>
         THEN QueryAgent_select_columns_with_llm(question, lookup, reply)
         ELSE [columns |-> <<>>, events |-> <<>>]} |->
    With([normalized \in {QueryAgent_normalize_column_candidates(by_llm.columns, lookup)} |->
        [columns |-> IF self.max_columns # 0 /\ Len(normalized) > self.max_columns
                     THEN Take(normalized, self.max_columns)
                     ELSE normalized,
         generate |-> IF self.llm_client /\ available_columns # <<>>
                      THEN <<"column_selection">> ELSE <<>>,
         events |-> by_llm.events]])])])

\* QueryAgent._select_columns: order is the iteration order of
\* set(available_columns)
QueryAgent_select_columns(self, question, row, available_columns, order, reply) ==
    With([lookup \in {QueryAgent_build_column_lookup(order)} |->
    With([by_llm \in {IF self.llm_client /\ available_columns # <<>>
         THEN QueryAgent_select_columns_with_llm(question, lookup, reply)
         ELSE [columns |-> <<>>, events |-> <<>>]} |->
    With([normalized \in {QueryAgent_normalize_column_candidates(
            IF by_llm.columns # <<>> THEN by_llm.columns
            ELSE QueryAgent_infer_columns_from_question(self, question, row),
            lookup)} |->
        [columns |-> IF self.max_columns # 0 /\ Len(normalized) > self.max_columns
                     THEN Take(normalized, self.max_columns)
                     ELSE normalized,
         generate |-> IF self.llm_client /\ available_columns # <<>>
                      THEN <<"column_selection">> ELSE <<>>,
         events |-> by_llm.events]])])])

\* QueryAgent._fact_from_column
QueryAgent_fact_from_column(column, value, origin, confidence) ==
    [concept |-> StrV(QueryAgent_column_to_concept(column)),
     value |-> value,
     origin |-> origin,
     confidence |-> confidence,
     candidate_columns |-> ListV(<<StrV(column)>>)]

\* QueryAgent._collect_direct_facts
QueryAgent_collect_direct_facts(row, columns) ==
    LET valued == SelectSeq(columns, LAMBDA column : QueryAgent_has_value(DictGet(row, column)))
    IN [i \in DOMAIN valued |->
            QueryAgent_fact_from_column(valued[i], DictGet(row, valued[i]), "dataset", ConfidenceOne)]

\* QueryAgent._resolve_facts_with_llm: reply is [raises, response]
QueryAgent_resolve_facts_with_llm(self, reply) ==
    IF ~self.llm_client THEN [facts |-> <<>>, generate |-> <<>>, events |-> <<>>]
    ELSE IF reply.raises
    THEN [facts |-> <<>>, generate |-> <<"direct_answer">>,
          events |-> <<Event("llm_error", [stage |-> "direct_answer"])>>]
    ELSE With([facts \in {QueryAgent_extract_facts_from_response(reply.response, "llm")} |->
            [facts |-> facts, generate |-> <<"direct_answer">>,
             events |-> IF facts # <<>>
                        THEN <<Event("llm_facts",
                                     [concepts |-> [i \in DOMAIN facts |-> facts[i].concept.s]])>>
                        ELSE <<>>]])

\* QueryAgent._resolve_facts asking the completion client before the record
QueryAgent_resolve_facts_completion_first(self, row, columns, reply) ==
    With([extracted \in {QueryAgent_resolve_facts_with_llm(self, reply)} |->
        IF extracted.facts # <<>> THEN extracted
        ELSE [facts |-> QueryAgent_collect_direct_facts(row, columns),
              generate |-> extracted.generate, events |-> extracted.events]])

\* QueryAgent._resolve_facts
QueryAgent_resolve_facts(self, row, columns, reply) ==
    With([direct_facts \in {QueryAgent_collect_direct_facts(row, columns)} |->
        IF direct_facts # <<>>
        THEN [facts |-> direct_facts, generate |-> <<>>, events |-> <<>>]
        ELSE IF ~self.llm_client
        THEN [facts |-> <<>>, generate |-> <<>>, events |-> <<>>]
        ELSE QueryAgent_resolve_facts_with_llm(self, reply)])

\* QueryAgent._determine_answer_origin: an origin or "" for None
QueryAgent_determine_answer_origin(facts) ==
    LET origins == {facts[i].origin : i \in {j \in DOMAIN facts : "origin" \in DOMAIN facts[j]}}
    IN IF origins = {} THEN ""
       ELSE IF origins = {"dataset"} THEN "dataset"
       ELSE IF origins = {"scraper"} THEN "scraper"
       ELSE IF origins = {"llm"} THEN "llm"
       ELSE "mixed"

\* no exception in flight
NoError == [type |-> "", message |-> ""]

\* what the observer of an agent does with an event: it records it, it raises,
\* or no observer was injected
Observers == {"succeeds", "raises", "absent"}

\* the exception log_event raises on a raising observer
ObserverError == [type |-> "RuntimeError", message |-> "log_event"]

\* QueryAgent._log_event with the exception of the observer left uncaught
QueryAgent_log_event_unguarded(self) ==
    IF self.logger = "raises" THEN ObserverError ELSE NoError

\* QueryAgent._log_event: the exception that leaves one call, the observer's
\* own being caught and dropped
QueryAgent_log_event(self) ==
    IF self.logger = "absent" THEN NoError
    ELSE IF self.logger = "raises" THEN NoError
    ELSE NoError

\* QueryAgent._log_event: the events handed to the observer
QueryAgent_log_events(self, events) == IF self.logger = "absent" THEN <<>> ELSE events

\* QueryAgent._flag_missing logging the event without calling the sink
QueryAgent_flag_missing_unsunk(ticket_id, question, facts) ==
    [events |-> <<Event("missing_data_flagged", [question |-> question, facts |-> facts])>>,
     flag_missing |-> <<>>]

\* QueryAgent._flag_missing: the observer event and the sink call
QueryAgent_flag_missing(ticket_id, question, facts) ==
    [events |-> <<Event("missing_data_flagged", [question |-> question, facts |-> facts])>>,
     flag_missing |-> <<[ticket_id |-> ticket_id, question |-> question, facts |-> facts]>>]

\* QueryAgent.answer_question.  env holds what the collaborators answer:
\* rows (row store), order (iteration order of set(available_columns)),
\* selection and extraction (the completion client's replies).  The value is
\* the result, the agent with its memo updated, and the calls made.
QueryAgent_answer_question(self, ticket_id, question, record_id, env) ==
    With([fetch \in {QueryAgent_fetch_record(self, record_id, env.rows)} |->
    With([row \in {fetch.found} |->
    With([memo \in {[self EXCEPT !.last_row = row, !.last_record_id = StrV(record_id)]} |->
    With([candidate_urls \in {extract_candidate_urls(row, self.candidate_url_fields)} |->
    With([record_context \in {build_record_context(row, self.context_columns)} |->
    With([head \in {[ticket_id |-> ticket_id, record_id |-> record_id, question |-> question,
          candidate_urls |-> candidate_urls]} |->
    With([fetched \in {<<Event("question_received", [record_id |-> record_id, question |-> question])>>
            \o fetch.events} |->
    IF row.t = "none"
    THEN With([flagged \in {QueryAgent_flag_missing(ticket_id, question,
                [reason |-> "record_not_found", record_id |-> record_id])} |->
            [result |-> Put(head, "status", "record_not_found"),
             self |-> memo,
             run |-> fetch.run,
             flag_missing |-> flagged.flag_missing,
             generate |-> <<>>,
             events |-> QueryAgent_log_events(self,
                            fetched \o flagged.events
                                \o <<Event("question_resolved",
                                           [record_id |-> record_id,
                                            status |-> "record_not_found"])>>)]])
    ELSE
    With([selection \in {QueryAgent_select_columns(self, question, row,
            QueryAgent_list_available_columns(self, row), env.order, env.selection)} |->
    With([columns \in {selection.columns} |->
    With([inferred \in {fetched \o selection.events
            \o <<Event("columns_inferred", [record_id |-> record_id, columns |-> columns])>>} |->
    IF columns = <<>>
    THEN With([flagged \in {QueryAgent_flag_missing(ticket_id, question,
                PutIf(Truthy(record_context),
                      PutIf(candidate_urls # <<>>, [reason |-> "unknown_question"],
                            "candidate_urls", candidate_urls),
                      "record_context", record_context))} |->
            [result |-> Put(Put(head, "status", "unknown_question"),
                            "record_context", record_context),
             self |-> memo,
             run |-> fetch.run,
             flag_missing |-> flagged.flag_missing,
             generate |-> selection.generate,
             events |-> QueryAgent_log_events(self,
                            inferred \o flagged.events
                                \o <<Event("question_resolved",
                                           [record_id |-> record_id,
                                            status |-> "unknown_question"])>>)]])
    ELSE
    With([resolution \in {QueryAgent_resolve_facts(self, row, columns, env.extraction)} |->
    With([facts \in {resolution.facts} |->
    IF facts = <<>>
    THEN With([flagged \in {QueryAgent_flag_missing(ticket_id, question,
                PutIf(Truthy(record_context),
                      PutIf(candidate_urls # <<>>,
                            [reason |-> "missing_values", missing_columns |-> columns],
                            "candidate_urls", candidate_urls),
                      "record_context", record_context))} |->
            [result |-> Put(Put(Put(head, "status", "missing_values"),
                                "missing_columns", columns),
                            "record_context", record_context),
             self |-> memo,
             run |-> fetch.run,
             flag_missing |-> flagged.flag_missing,
             generate |-> selection.generate \o resolution.generate,
             events |-> QueryAgent_log_events(self,
                            inferred \o resolution.events \o flagged.events
                                \o <<Event("question_resolved",
                                           [record_id |-> record_id,
                                            status |-> "missing_values"])>>)]])
    ELSE
    With([answer_origin \in {QueryAgent_determine_answer_origin(facts)} |->
            [result |-> PutIf(Truthy(record_context),
                              PutIf(answer_origin # "",
                                    Put(Put(head, "status", "answered"), "facts", facts),
                                    "answer_origin", answer_origin),
                              "record_context", record_context),
             self |-> memo,
             run |-> fetch.run,
             flag_missing |-> <<>>,
             generate |-> selection.generate \o resolution.generate,
             events |-> QueryAgent_log_events(self,
                            inferred \o resolution.events
                                \o <<Event("facts_ready",
                                           [record_id |-> record_id,
                                            concepts |-> [i \in DOMAIN facts |->
                                                            facts[i].concept.s]]),
                                     Event("question_resolved",
                                           [record_id |-> record_id,
                                            status |-> "answered"])>>)]])])])])])])])])])])])])])

\* QueryAgent._get_cached_row
QueryAgent_get_cached_row(self, record_id) ==
    IF self.last_record_id = StrV(record_id) THEN self.last_row ELSE PyNone

\* the status _extract_follow_up_response derives from one payload
QueryAgent_follow_up_status(payload, facts) ==
    LET status_value == Get(payload, "status")
        raw_status == IF status_value.t = "str" /\ str_strip(status_value.s) # <<>>
                      THEN str_lower(str_strip(status_value.s))
                      ELSE <<>>
    IN IF raw_status = <<"a","n","s","w","e","r","e","d">> THEN "answered"
       ELSE IF raw_status = <<"i","n","s","u","f","f","i","c","i","e","n","t">> THEN "insufficient"
       ELSE IF facts # <<>> THEN "answered" ELSE "insufficient"

\* QueryAgent._extract_follow_up_response: the first dict payload decides;
\* order is the iteration order of row_keys.  EmptyDict when there is none.
RECURSIVE QueryAgent_extract_follow_up_response(_, _)
QueryAgent_extract_follow_up_response(response, order) ==
    IF response = <<>> THEN EmptyDict
    ELSE IF ~IsDict(Head(response))
    THEN QueryAgent_extract_follow_up_response(Tail(response), order)
    ELSE LET payload == Head(response)
             facts == QueryAgent_parse_fact_payload(payload, "scraper",
                            QueryAgent_build_column_lookup(order))
             notes_value == Get(payload, "notes")
             has_notes == notes_value.t = "str" /\ str_strip(notes_value.s) # <<>>
             aggregate_sources == QueryAgent_normalize_sources(Get(payload, "sources"))
         IN PutIf(aggregate_sources # <<>>,
                  PutIf(has_notes,
                        [facts |-> facts, status |-> QueryAgent_follow_up_status(payload, facts)],
                        "notes", IF has_notes THEN str_strip(notes_value.s) ELSE <<>>),
                  "sources", aggregate_sources)

\* QueryAgent._collect_fact_sources: concept -> its first source
QueryAgent_collect_fact_sources(facts) ==
    LET sourced == {i \in DOMAIN facts :
                        /\ facts[i].concept.s # <<>>
                        /\ "sources" \in DOMAIN facts[i]
                        /\ facts[i].sources # <<>>}
        first(concept) == CHOOSE i \in sourced :
                            /\ facts[i].concept.s = concept
                            /\ \A j \in sourced : facts[j].concept.s = concept => i <= j
    IN [concept \in {facts[i].concept.s : i \in sourced} |-> facts[first(concept)].sources[1]]

\* QueryAgent.incorporate_scraper_findings.  record_context is PyNone or a
\* dict; env holds rows (row store), order (iteration order of the row's
\* keys) and follow_up (the completion client's reply).  The result is PyNone
\* or the follow-up result.
QueryAgent_incorporate_scraper_findings(self, ticket_id, question, record_id, findings, record_context, env) ==
    With([received \in {<<Event("scraper_findings_received",
                                [record_id |-> record_id,
                                 finding_count |-> Len(findings)])>>} |->
    IF findings = <<>>
    THEN [result |-> PyNone, self |-> self, run |-> <<>>, generate |-> <<>>, events |-> <<>>]
    ELSE IF ~self.llm_client
    THEN [result |-> PyNone, self |-> self, run |-> <<>>, generate |-> <<>>,
          events |-> QueryAgent_log_events(self,
                         received \o <<Event("scraper_follow_up_skipped",
                                             [reason |-> "llm_unavailable"])>>)]
    ELSE
    With([cached \in {QueryAgent_get_cached_row(self, record_id)} |->
    With([fetch \in {IF cached.t = "none"
                     THEN QueryAgent_fetch_record(self, record_id, env.rows)
                     ELSE [found |-> cached, run |-> <<>>, events |-> <<>>]} |->
    With([row \in {fetch.found} |->
    With([memo \in {IF cached.t = "none"
                    THEN [self EXCEPT !.last_row = row, !.last_record_id = StrV(record_id)]
                    ELSE self} |->
    With([candidate_urls \in {extract_candidate_urls(row, self.candidate_url_fields)} |->
    With([context \in {IF Truthy(record_context) THEN record_context
                       ELSE build_record_context(row, self.context_columns)} |->
    With([attempted \in {received \o fetch.events
                            \o <<Event("scraper_follow_up_attempted",
                                       [question |-> question,
                                        finding_count |-> Len(findings)])>>} |->
    IF env.follow_up.raises
    THEN [result |-> PyNone, self |-> memo, run |-> fetch.run,
          generate |-> <<"scraper_follow_up">>,
          events |-> QueryAgent_log_events(self,
                         attempted \o <<Event("llm_error", [stage |-> "scraper_follow_up"])>>)]
    ELSE
    With([follow_up \in {QueryAgent_extract_follow_up_response(env.follow_up.response,
                                                               env.order)} |->
    With([facts \in {IF DOMAIN follow_up # {} THEN follow_up.facts ELSE <<>>} |->
    IF facts = <<>>
    THEN [result |-> PyNone, self |-> memo, run |-> fetch.run,
          generate |-> <<"scraper_follow_up">>,
          events |-> QueryAgent_log_events(self,
                         attempted \o <<Event("scraper_follow_up_insufficient",
                                              [reason |-> IF DOMAIN follow_up # {}
                                                          THEN follow_up.status
                                                          ELSE "no_payload"])>>)]
    ELSE
    With([fact_source_map \in {QueryAgent_collect_fact_sources(facts)} |->
         [result |->
            Put(PutIf(DOMAIN fact_source_map # {},
                  PutIf("notes" \in DOMAIN follow_up,
                    PutIf("sources" \in DOMAIN follow_up,
                      PutIf(Truthy(context),
                        PutIf(candidate_urls # <<>>,
                              [ticket_id |-> ticket_id, record_id |-> record_id,
                               question |-> question, status |-> follow_up.status,
                               facts |-> facts],
                              "candidate_urls", candidate_urls),
                        "record_context", context),
                      "aggregate_sources", Get(follow_up, "sources")),
                    "answer_notes", Get(follow_up, "notes")),
                  "fact_sources", fact_source_map),
                "answer_origin", "scraper"),
          self |-> memo, run |-> fetch.run,
          generate |-> <<"scraper_follow_up">>,
          events |-> QueryAgent_log_events(self,
                         attempted \o <<Event("scraper_follow_up_answered",
                                              [concepts |-> [i \in DOMAIN facts |->
                                                               facts[i].concept.s]])>>)]
    ])])])])])])])])])])])

(***************************************************************************)
(* ScraperAgent (the Evidence Gatherer)                                    *)
(***************************************************************************)
\* str.replace(old, new) for a non-empty old
RECURSIVE str_replace(_, _, _)
str_replace(s, old, new) ==
    IF \A i \in DOMAIN s : s[i] # Head(old) THEN s ELSE
    IF s = <<>> THEN <<>>
    ELSE IF StartsWith(s, old)
    THEN new \o str_replace(SubSeq(s, Len(old) + 1, Len(s)), old, new)
    ELSE <<Head(s)>> \o str_replace(Tail(s), old, new)

\* sep.join(parts[i..])
RECURSIVE str_join_from(_, _, _)
str_join_from(sep, parts, i) ==
    IF i > Len(parts) THEN <<>>
    ELSE (IF i > 1 THEN sep ELSE <<>>) \o parts[i] \o str_join_from(sep, parts, i + 1)

\* sep.join(parts)
str_join(sep, parts) == str_join_from(sep, parts, 1)

\* the position of the first character of s that is in cs, or Len(s) + 1
FirstOf(s, cs) ==
    IF \E i \in DOMAIN s : s[i] \in cs
    THEN CHOOSE i \in DOMAIN s : s[i] \in cs /\ \A j \in 1..(i - 1) : s[j] \notin cs
    ELSE Len(s) + 1

\* urlparse(url): the netloc and the path
SchemeChars ==
    Range(LowerChars) \cup Range(UpperChars) \cup Range(DigitChars) \cup {"+", "-", "."}

\* url without its scheme
url_after_scheme(url) ==
    With([colon \in {FirstOf(url, {":"})} |->
        IF /\ colon <= Len(url)
           /\ colon > 1
           /\ url[1] \in Range(LowerChars) \cup Range(UpperChars)
           /\ \A i \in 1..(colon - 1) : url[i] \in SchemeChars
        THEN SubSeq(url, colon + 1, Len(url))
        ELSE url])

\* s up to the first character in cs
UpTo(s, cs) == SubSeq(s, 1, FirstOf(s, cs) - 1)

\* s from the first character in cs on
From(s, cs) == SubSeq(s, FirstOf(s, cs), Len(s))

urlparse(url) ==
    With([rest \in {url_after_scheme(url)} |->
        IF StartsWith(rest, <<"/", "/">>)
        THEN With([after \in {SubSeq(rest, 3, Len(rest))} |->
                [netloc |-> UpTo(after, {"/", "?", "#"}),
                 path |-> UpTo(From(after, {"/", "?", "#"}), {"?", "#"})]])
        ELSE [netloc |-> <<>>, path |-> UpTo(rest, {"?", "#"})]])

\* ScraperAgent._extract_host: the host, <<>> for None
ScraperAgent_extract_host(url) ==
    With([parsed \in {urlparse(str_strip(url))} |->
        str_lower(IF parsed.netloc # <<>> THEN parsed.netloc
                  ELSE str_split(parsed.path, "/")[1])])

\* ScraperAgent.IGNORED_HOST_KEYWORDS
IGNORED_HOST_KEYWORDS ==
    { <<"f","o","o","d","m","e","t","r","i","c","s">>, <<"i","n","t","e","r","n","a","l">>, <<"e","x","a","m","p","l","e",".","c","o","m">>, <<"g","o","o","g","l","e",".","c","o","m">>, <<"g",".","p","a","g","e">>, <<"g","o","o",".","g","l">> }

\* a SearchTask
SearchTask(query, topic, description) ==
    [query |-> query, topic |-> topic, description |-> description]

\* the loop of ScraperAgent._candidate_url_tasks over candidate_urls[i..]
RECURSIVE ScraperAgent_candidate_url_loop(_, _, _, _, _)
ScraperAgent_candidate_url_loop(question, candidate_urls, i, seen_hosts, tasks) ==
    IF i > Len(candidate_urls) THEN tasks
    ELSE With([host \in {ScraperAgent_extract_host(candidate_urls[i])} |->
            IF \/ host = <<>>
               \/ \E keyword \in IGNORED_HOST_KEYWORDS : Contains(host, keyword)
               \/ host \in seen_hosts
            THEN ScraperAgent_candidate_url_loop(question, candidate_urls, i + 1, seen_hosts, tasks)
            ELSE ScraperAgent_candidate_url_loop(
                    question, candidate_urls, i + 1, seen_hosts \cup {host},
                    Append(tasks,
                           SearchTask(<<"s","i","t","e",":">> \o host \o <<" ">> \o question,
                                      host,
                                      <<"S","e","a","r","c","h"," ">> \o host
                                        \o <<" ","f","o","r"," ","i","n","f","o","r","m","a","t","i","o","n"," ","r","e","l","a","t","e","d"," ","t","o"," ","t","h","e"," ","q","u","e","s","t","i","o","n">>)))])

\* ScraperAgent._candidate_url_tasks naming the hosts last first
ScraperAgent_candidate_url_tasks_last_first(question, candidate_urls) ==
    With([tasks \in {ScraperAgent_candidate_url_loop(question, candidate_urls, 1, {}, <<>>)} |->
        [i \in DOMAIN tasks |-> tasks[Len(tasks) + 1 - i]]])

\* ScraperAgent._candidate_url_tasks: candidate_urls is a list (empty for None)
ScraperAgent_candidate_url_tasks(question, candidate_urls) ==
    ScraperAgent_candidate_url_loop(question, candidate_urls, 1, {}, <<>>)

\* ScraperAgent._extract_company_name: the name, <<>> for None; record_context
\* is PyNone or a dict
RECURSIVE ScraperAgent_company_name_from(_, _, _)
ScraperAgent_company_name_from(record_context, preferred_keys, i) ==
    IF i > Len(preferred_keys) THEN <<>>
    ELSE LET value == DictGet(record_context, preferred_keys[i])
         IN IF value.t = "str" /\ str_strip(value.s) # <<>> THEN str_strip(value.s)
            ELSE IF Truthy(value) THEN PyStr(value)
            ELSE ScraperAgent_company_name_from(record_context, preferred_keys, i + 1)

ScraperAgent_extract_company_name(record_context) ==
    IF ~Truthy(record_context) THEN <<>>
    ELSE ScraperAgent_company_name_from(
            record_context,
            << <<"B","U","S","I","N","E","S","S","_","N","A","M","E">>, <<"A","L","T","E","R","N","A","T","E","_","N","A","M","E">>, <<"C","H","A","I","N","_","N","A","M","E">>, <<"P","A","R","E","N","T","_","N","A","M","E">> >>, 1)

\* ScraperAgent._compose_google_query
ScraperAgent_compose_google_query(question, company_name) ==
    LET q == str_strip(question)
        base == <<"\"">> \o company_name \o <<"\"">>
    IN IF company_name # <<>>
       THEN IF q # <<>> THEN base \o <<" ">> \o q ELSE base
       ELSE IF q # <<>> THEN <<"\"">> \o q \o <<"\"">> ELSE q

\* the placeholders of ScraperAgent._inject_company_name, in dict order
CompanyPlaceholders ==
    << <<"{","c","o","m","p","a","n","y","}">>, <<"{","C","o","m","p","a","n","y","}">>, <<"{","c","o","m","p","a","n","y"," ","n","a","m","e","}">>, <<"{","C","o","m","p","a","n","y"," ","N","a","m","e","}">>,
       <<"{","b","u","s","i","n","e","s","s","}">>, <<"{","B","u","s","i","n","e","s","s","}">> >>

\* ScraperAgent._replace_placeholders over placeholders[i..]
RECURSIVE ScraperAgent_replace_placeholders(_, _, _)
ScraperAgent_replace_placeholders(value, company_name, i) ==
    IF i > Len(CompanyPlaceholders) THEN value
    ELSE ScraperAgent_replace_placeholders(
            str_replace(value, CompanyPlaceholders[i], company_name), company_name, i + 1)

\* ScraperAgent._inject_company_name
ScraperAgent_inject_company_name(tasks, company_name) ==
    [i \in DOMAIN tasks |->
        SearchTask(ScraperAgent_replace_placeholders(tasks[i].query, company_name, 1),
                   ScraperAgent_replace_placeholders(tasks[i].topic, company_name, 1),
                   ScraperAgent_replace_placeholders(tasks[i].description, company_name, 1))]

\* the stripped, non-empty lines of the text blocks of a response
ScraperAgent_plan_lines(response) ==
    LET lines_of(text) == SelectSeq([i \in DOMAIN str_split(text, "\n") |->
                                        str_strip(str_split(text, "\n")[i])],
                                    LAMBDA line : line # <<>>)
        RECURSIVE all_lines(_)
        all_lines(i) == IF i > Len(response) THEN <<>>
                        ELSE lines_of(response[i]) \o all_lines(i + 1)
    IN all_lines(1)

\* ScraperAgent._parse_llm_plan: response is the list of its text blocks
ScraperAgent_parse_llm_plan(response) ==
    LET lines == ScraperAgent_plan_lines(response)
        parts(raw) == [i \in DOMAIN str_split(raw, "|") |-> str_strip(str_split(raw, "|")[i])]
        usable == SelectSeq(lines, LAMBDA raw : Len(parts(raw)) >= 2 /\ parts(raw)[2] # <<>>)
    IN [i \in DOMAIN usable |->
            SearchTask(parts(usable[i])[2],
                       IF parts(usable[i])[1] # <<>> THEN parts(usable[i])[1] ELSE <<"g","e","n","e","r","a","l">>,
                       IF Len(parts(usable[i])) > 2 THEN parts(usable[i])[3] ELSE <<>>)]

\* ScraperAgent._plan_with_llm: reply is [raises, response]
ScraperAgent_plan_with_llm(self, reply) ==
    LET tasks == ScraperAgent_parse_llm_plan(reply.response)
    IN IF ~self.llm_client THEN [tasks |-> <<>>, generate |-> 0, events |-> <<>>]
       ELSE IF reply.raises
       THEN [tasks |-> <<>>, generate |-> 1, events |-> <<Event("llm_error", [error |-> "raised"])>>]
       ELSE [tasks |-> tasks, generate |-> 1,
             events |-> IF tasks # <<>>
                        THEN <<Event("llm_plan_created", [task_count |-> Len(tasks)])>>
                        ELSE <<>>]

\* the task plan_research adds for one missing column
ScraperAgent_column_task(question, company_name, column) ==
    LET readable == str_lower(str_strip(str_replace_char(column, "_", <<" ">>)))
        query_terms == (IF company_name # <<>> THEN << <<"\"">> \o company_name \o <<"\"">> >> ELSE <<>>)
                       \o (IF question # <<>> THEN <<question>> ELSE <<>>)
                       \o (IF readable # <<>> THEN <<readable>> ELSE <<>>)
        joined == str_join(<<" ">>, query_terms)
    IN SearchTask(IF joined # <<>> THEN joined ELSE question,
                  column,
                  <<"F","i","n","d"," ","s","u","p","p","o","r","t","i","n","g"," ","e","v","i","d","e","n","c","e"," ","f","o","r"," ","m","i","s","s","i","n","g"," ","c","o","l","u","m","n"," ","'">> \o column \o <<"'">>)

\* ScraperAgent._log_event with the exception of the observer left uncaught
ScraperAgent_log_event_unguarded(self, ticket_id) ==
    IF ticket_id # <<>> /\ self.logger = "raises" THEN ObserverError ELSE NoError

\* ScraperAgent._log_event: the exception that leaves one call, the
\* observer's own being caught and dropped
ScraperAgent_log_event(self, ticket_id) ==
    IF ticket_id = <<>> \/ self.logger = "absent" THEN NoError
    ELSE IF self.logger = "raises" THEN NoError
    ELSE NoError

\* ScraperAgent._log_event: the events handed to the observer
ScraperAgent_log_events(self, ticket_id, events) ==
    IF ticket_id = <<>> \/ self.logger = "absent" THEN <<>> ELSE events

\* ScraperAgent.plan_research: missing_facts is a dict with the optional keys
\* missing_columns, candidate_urls (lists) and record_context (a dict)
ScraperAgent_plan_research(self, question, missing_facts, ticket_id, reply) ==
    With([missing_columns \in {IF "missing_columns" \in DOMAIN missing_facts
                               THEN missing_facts.missing_columns ELSE <<>>} |->
    With([candidate_urls \in {IF "candidate_urls" \in DOMAIN missing_facts
                              THEN missing_facts.candidate_urls ELSE <<>>} |->
    With([company_name \in {ScraperAgent_extract_company_name(
                                Get(missing_facts, "record_context"))} |->
    With([general \in {IF question # <<>>
                       THEN <<SearchTask(ScraperAgent_compose_google_query(question, company_name),
                                         <<"g","o","o","g","l","e">>,
                                         <<"G","e","n","e","r","a","l"," ","G","o","o","g","l","e"," ","s","e","a","r","c","h"," ","s","c","o","p","e","d"," ","t","o"," ","t","h","e"," ","c","o","m","p","a","n","y">>)>>
                       ELSE <<>>} |->
    With([by_llm \in {IF self.llm_client THEN ScraperAgent_plan_with_llm(self, reply)
                      ELSE [tasks |-> <<>>, generate |-> 0, events |-> <<>>]} |->
    With([fallback_query \in {IF company_name # <<>>
                              THEN <<"\"">> \o company_name \o <<"\"", " ">> \o question
                              ELSE question} |->
    With([closing \in {IF missing_columns # <<>>
                       THEN [i \in DOMAIN missing_columns |->
                                ScraperAgent_column_task(question, company_name,
                                                         missing_columns[i])]
                       ELSE IF candidate_urls = <<>>
                       THEN <<SearchTask(IF fallback_query # <<>> THEN fallback_query
                                         ELSE <<"c","o","m","p","a","n","y"," ","b","a","c","k","g","r","o","u","n","d">>,
                                         <<"g","e","n","e","r","a","l">>,
                                         <<"G","e","n","e","r","a","l"," ","c","o","n","t","e","x","t"," ","g","a","t","h","e","r","i","n","g"," ","f","o","r"," ","u","n","a","n","s","w","e","r","e","d"," ","q","u","e","s","t","i","o","n">>)>>
                       ELSE <<>>} |->
    With([planned \in {general \o ScraperAgent_candidate_url_tasks(question, candidate_urls)
                           \o by_llm.tasks \o closing} |->
    With([tasks \in {IF company_name # <<>>
                     THEN ScraperAgent_inject_company_name(planned, company_name)
                     ELSE planned} |->
        [tasks |-> tasks,
         generate |-> by_llm.generate,
         events |-> ScraperAgent_log_events(self, ticket_id,
                        by_llm.events
                        \o <<Event("scrape_plan_created",
                                   [question |-> question, task_count |-> Len(tasks),
                                    missing_columns |-> missing_columns])>>)]
    ])])])])])])])])])

\* ScraperAgent._compose_backfill_prompt: None (PyNone) without a successful
\* search, otherwise the prompt text
ScraperAgent_compose_backfill_prompt(question, missing_columns, successful) ==
    LET stripped == [i \in DOMAIN missing_columns |-> str_strip(missing_columns[i])]
        normalized_columns == SelectSeq(stripped, LAMBDA column : column # <<>>)
        target_clause == IF normalized_columns # <<>>
                         THEN <<"t","o"," ","c","a","p","t","u","r","e"," ">> \o str_join(<<",", " ">>, SortedList(Range(normalized_columns)))
                         ELSE <<"t","o"," ","c","a","p","t","u","r","e"," ","t","h","e"," ","m","i","s","s","i","n","g"," ","i","n","f","o","r","m","a","t","i","o","n">>
        question_text == IF str_strip(question) # <<>> THEN str_strip(question)
                         ELSE <<"t","h","e"," ","s","t","a","k","e","h","o","l","d","e","r","'","s"," ","r","e","q","u","e","s","t">>
        summary(index) ==
            LET entry == successful[index]
            IN <<"[">> \o NatToStr(index) \o <<"]">>
               \o (IF str_strip(entry.topic) # <<>>
                   THEN <<" ","T","o","p","i","c",":"," ">> \o str_strip(entry.topic) ELSE <<>>)
               \o (IF str_strip(entry.query) # <<>>
                   THEN <<" ","|"," ","Q","u","e","r","y",":"," ">> \o str_strip(entry.query) ELSE <<>>)
               \o (IF str_strip(entry.description) # <<>>
                   THEN <<" ","|"," ","U","s","e",":"," ">> \o str_strip(entry.description) ELSE <<>>)
               \o <<" ","(","r","e","t","u","r","n","e","d"," ">> \o NatToStr(entry.result_count) \o <<" ","r","e","s","u","l","t">>
               \o (IF entry.result_count # 1 THEN <<"s">> ELSE <<>>) \o <<")">>
        lines == << <<"Y","o","u"," ","a","r","e"," ","b","a","c","k","f","i","l","l","i","n","g"," ","n","e","w","l","y"," ","a","c","c","e","p","t","e","d"," ","s","c","h","e","m","a"," ","f","i","e","l","d","s"," ","a","c","r","o","s","s"," ","t","h","e"," ","d","a","t","a","s","e","t",".">>,
                    <<"R","e","u","s","e"," ","t","h","e"," ","p","r","o","v","e","n"," ","s","e","a","r","c","h","e","s"," ","b","e","l","o","w"," ">> \o target_clause
                        \o <<" ","w","h","e","n"," ","a","n","s","w","e","r","i","n","g"," ","'">> \o question_text \o <<"'", ".">>,
                    <<"F","o","r"," ","e","a","c","h"," ","r","e","m","a","i","n","i","n","g"," ","r","e","c","o","r","d",":">>,
                    <<"1","."," ","R","u","n"," ","t","h","e"," ","r","e","c","o","m","m","e","n","d","e","d"," ","s","e","a","r","c","h","e","s",","," ","a","d","j","u","s","t","i","n","g"," ","c","o","m","p","a","n","y","/","l","o","c","a","t","i","o","n"," ","t","e","r","m","s"," ","a","s"," ","n","e","e","d","e","d",".">>,
                    <<"2","."," ","P","u","l","l"," ","v","a","l","u","e","s"," ","f","r","o","m"," ","a","u","t","h","o","r","i","t","a","t","i","v","e"," ","s","o","u","r","c","e","s"," ","r","e","t","u","r","n","e","d"," ","b","y"," ","t","h","e"," ","s","e","a","r","c","h","e","s",".">>,
                    <<"3","."," ","C","a","p","t","u","r","e"," ","t","h","e"," ","s","o","u","r","c","e"," ","U","R","L"," ","f","o","r"," ","a","u","d","i","t","i","n","g"," ","a","n","d"," ","n","o","t","e"," ","a","n","y"," ","c","o","n","f","i","d","e","n","c","e"," ","c","a","v","e","a","t","s",".">>,
                    <<"S","u","c","c","e","s","s","f","u","l"," ","s","e","a","r","c","h","e","s",":">> >>
                 \o [index \in DOMAIN successful |-> summary(index)]
                 \o << <<"D","o","c","u","m","e","n","t"," ","f","i","n","d","i","n","g","s"," ","i","n"," ","t","h","e"," ","e","v","i","d","e","n","c","e"," ","l","o","g"," ","b","e","f","o","r","e"," ","i","m","p","o","r","t","i","n","g"," ","i","n","t","o"," ","t","h","e"," ","C","R","M",".">> >>
    IN IF successful = <<>> THEN PyNone ELSE StrV(str_join(<<"\n">>, lines))

\* the findings of one task with the ranks counted from 1
ScraperAgent_task_findings_ranked_from_one(ticket_id, task, results) ==
    [k \in DOMAIN results |->
        [ticket_id |-> ticket_id, topic |-> task.topic, query |-> task.query,
         rank |-> k, result |-> results[k]]]

\* the findings one task contributes: one per search result, ranked from 0
ScraperAgent_task_findings(ticket_id, task, results) ==
    [k \in DOMAIN results |->
        [ticket_id |-> ticket_id, topic |-> task.topic, query |-> task.query,
         rank |-> k - 1, result |-> results[k]]]

\* the task loop of execute_plan from task i on; searches[i] is what the
\* search client does for task i: [raises, results]
RECURSIVE ScraperAgent_run_tasks(_, _, _, _, _)
ScraperAgent_run_tasks(ticket_id, tasks, searches, i, acc) ==
    IF i > Len(tasks) THEN acc
    ELSE LET task == tasks[i]
             started == Event("scrape_task_started", [topic |-> task.topic, query |-> task.query])
             results == searches[i].results
             called == Append(acc.search, [query |-> task.query, limit |-> acc.limit])
         IN IF searches[i].raises
            THEN [acc EXCEPT !.search = called,
                             !.events = Append(@, started),
                             !.raised = TRUE]
            ELSE ScraperAgent_run_tasks(ticket_id, tasks, searches, i + 1,
                    [acc EXCEPT
                        !.search = called,
                        !.findings = @ \o ScraperAgent_task_findings(ticket_id, task, results),
                        !.successful = IF results # <<>>
                                       THEN Append(@, [topic |-> task.topic, query |-> task.query,
                                                       description |-> task.description,
                                                       result_count |-> Len(results)])
                                       ELSE @,
                        !.events = @ \o <<started,
                                          Event("scrape_task_completed",
                                                [topic |-> task.topic, query |-> task.query,
                                                 result_count |-> Len(results)])>>])

\* ScraperAgent.aggregate
ScraperAgent_aggregate(self, ticket_id, findings) ==
    [bulk_append |-> <<[ticket_id |-> ticket_id, findings |-> findings]>>,
     events |-> ScraperAgent_log_events(self, ticket_id,
                    <<Event("scrape_findings_persisted", [count |-> Len(findings)])>>)]

\* ScraperAgent.execute_plan after its first line, plan being what
\* plan_research returned and searches the search client's behaviour per task.
\* raised = TRUE: the exception of the search client left the method and
\* there is no outcome.
ScraperAgent_execute_planned(self, ticket_id, question, missing_facts, plan, searches) ==
    With([tasks \in {plan.tasks} |->
    With([loop \in {ScraperAgent_run_tasks(ticket_id, tasks, searches, 1,
                        [search |-> <<>>, findings |-> <<>>, successful |-> <<>>,
                         events |-> <<>>, raised |-> FALSE,
                         limit |-> self.default_limit])} |->
    With([task_events \in {ScraperAgent_log_events(self, ticket_id, loop.events)} |->
    IF loop.raised
    THEN [raised |-> TRUE, outcome |-> PyNone, search |-> loop.search,
          bulk_append |-> <<>>, generate |-> plan.generate,
          events |-> plan.events \o task_events]
    ELSE
    With([findings \in {loop.findings} |->
    With([persisted \in {IF findings # <<>>
                         THEN ScraperAgent_aggregate(self, ticket_id, findings)
                         ELSE [bulk_append |-> <<>>,
                               events |-> ScraperAgent_log_events(self, ticket_id,
                                    <<Event("scrape_no_findings",
                                            [question |-> question,
                                             task_count |-> Len(tasks)])>>)]} |->
    With([missing_columns \in {SelectSeq(IF "missing_columns" \in DOMAIN missing_facts
                                         THEN missing_facts.missing_columns ELSE <<>>,
                                         LAMBDA item : item # <<>>)} |->
         [raised |-> FALSE,
          outcome |-> [tasks |-> tasks, findings |-> findings,
                       successful_searches |-> loop.successful,
                       backfill_prompt |-> ScraperAgent_compose_backfill_prompt(
                                               question, missing_columns, loop.successful)],
          search |-> loop.search,
          bulk_append |-> persisted.bulk_append,
          generate |-> plan.generate,
          events |-> plan.events \o task_events \o persisted.events]
    ])])])])])])

\* ScraperAgent.execute_plan. env.plan is the completion client's reply to the
\* planning prompt, env.searches the search client's behaviour per task.
ScraperAgent_execute_plan(self, ticket_id, question, missing_facts, env) ==
    ScraperAgent_execute_planned(self, ticket_id, question, missing_facts,
        ScraperAgent_plan_research(self, question, missing_facts, ticket_id, env.plan),
        env.searches)

(***************************************************************************)
(* runner (the Orchestrator)                                               *)
(***************************************************************************)
\* _validate_dependencies with the check of the scraper agent left out
validate_dependencies_without_scraper(deps) ==
    IF ~deps.sql_executor
    THEN [type |-> "ValueError", message |-> "SQL executor dependency is required"]
    ELSE IF ~deps.missing_data_flagger
    THEN [type |-> "ValueError", message |-> "Missing data flagger dependency is required"]
    ELSE IF ~deps.update_agent
    THEN [type |-> "ValueError", message |-> "Update agent dependency is required"]
    ELSE IF ~deps.schema_agent
    THEN [type |-> "ValueError", message |-> "Schema agent dependency is required"]
    ELSE NoError

\* _validate_dependencies: the error it raises, NoError when it returns
validate_dependencies(deps) ==
    IF ~deps.sql_executor
    THEN [type |-> "ValueError", message |-> "SQL executor dependency is required"]
    ELSE IF ~deps.missing_data_flagger
    THEN [type |-> "ValueError", message |-> "Missing data flagger dependency is required"]
    ELSE IF ~deps.scraper_agent
    THEN [type |-> "ValueError", message |-> "Scraper agent dependency is required"]
    ELSE IF ~deps.update_agent
    THEN [type |-> "ValueError", message |-> "Update agent dependency is required"]
    ELSE IF ~deps.schema_agent
    THEN [type |-> "ValueError", message |-> "Schema agent dependency is required"]
    ELSE NoError

\* the QueryAgent run_scenario constructs (defaults of the dataclass for the
\* fields it does not pass)
QueryAgent_new(deps, primary_key, table_name) ==
    [llm_client |-> deps.gpt_client,
     primary_key_column |-> primary_key,
     table_name |-> table_name,
     max_columns |-> 3,
     logger |-> deps.query_logger,
     candidate_url_fields |-> deps.candidate_url_fields,
     context_columns |-> PyNone,
     dataset_columns |-> PyNone,
     last_row |-> PyNone,
     last_record_id |-> PyNone]

\* _augment_with_scraper handing over the status alone
augment_missing_facts_status_only(answered) == [status |-> answered.status]

\* the missing_facts _augment_with_scraper hands to execute_plan
augment_missing_facts(answered) ==
    LET record_context == Get(answered, "record_context")
    IN PutIf(record_context.t = "dict" /\ Truthy(record_context),
             PutIf("candidate_urls" \in DOMAIN answered,
                   PutIf("missing_columns" \in DOMAIN answered,
                         [status |-> answered.status],
                         "missing_columns", Get(answered, "missing_columns")),
                   "candidate_urls", Get(answered, "candidate_urls")),
             "record_context", record_context)

\* SearchTask.to_dict for every task
tasks_to_dict(tasks) == tasks

\* d without key k when it has it, d otherwise
PopIf(d, k) == IF k \in DOMAIN d THEN Pop(d, k) ELSE d

\* the overwriting of the result by a follow-up result that leaves the
\* missing_columns and answers keys in place
augment_merge_follow_up_keeping_stale_keys(current, follow_up) ==
    Put(Put(Put(current, "previous_status", current.status),
            "status", follow_up.status),
        "facts", follow_up.facts)

\* the part of _augment_with_scraper that overwrites the result with a
\* follow-up result
augment_merge_follow_up(current, follow_up) ==
    LET has(key) == key \in DOMAIN follow_up
        copies(key) ==
            CASE key \in {"candidate_urls", "aggregate_sources", "answer_notes"} ->
                    has(key) /\ follow_up[key] # <<>>
              [] key = "record_context" -> has(key) /\ Truthy(follow_up[key])
              [] key = "fact_sources" -> has(key) /\ DOMAIN follow_up[key] # {}
              [] key = "answer_origin" -> has(key) /\ follow_up[key] # ""
        with_previous == IF "previous_status" \in DOMAIN current THEN current
                         ELSE Put(current, "previous_status", current.status)
        with_status == Put(Put(with_previous, "status",
                               IF "status" \in DOMAIN follow_up THEN follow_up.status
                               ELSE "answered"),
                           "facts",
                           IF "facts" \in DOMAIN follow_up THEN follow_up.facts ELSE <<>>)
        RECURSIVE copied(_, _)
        copied(keys, d) == IF keys = <<>> THEN d
                           ELSE copied(Tail(keys),
                                       IF copies(Head(keys))
                                       THEN Put(d, Head(keys), follow_up[Head(keys)])
                                       ELSE d)
    IN PopIf(PopIf(copied(<<"candidate_urls", "record_context", "fact_sources",
                             "aggregate_sources", "answer_notes", "answer_origin">>,
                           with_status),
                   "missing_columns"),
             "answers")

\* Runner._resolve_enrichment_payload preferring the facts the agents derived
\* to the scenario's
Runner_resolve_enrichment_payload_derived_first(current, chosen) ==
    LET scenario_facts == Get(chosen, "facts")
        cleaned == IF scenario_facts.t = "list" THEN SelectSeq(scenario_facts.items, IsDict)
                   ELSE <<>>
    IN IF current.status = "answered" /\ "facts" \in DOMAIN current /\ current.facts # <<>>
       THEN ListV(current.facts)
       ELSE IF cleaned # <<>> THEN ListV(cleaned)
       ELSE PyNone

\* Runner._resolve_enrichment_payload: a list of facts or PyNone
Runner_resolve_enrichment_payload(current, chosen) ==
    LET scenario_facts == Get(chosen, "facts")
        cleaned == IF scenario_facts.t = "list" THEN SelectSeq(scenario_facts.items, IsDict)
                   ELSE <<>>
        scenario_enrichment == Get(chosen, "enriched_fields")
    IN IF cleaned # <<>> THEN ListV(cleaned)
       ELSE IF scenario_enrichment.t = "dict"
       THEN ListV([i \in DOMAIN scenario_enrichment.items |->
                      [concept |-> StrV(scenario_enrichment.items[i][1]),
                       value |-> scenario_enrichment.items[i][2]]])
       ELSE IF current.status = "answered" /\ "facts" \in DOMAIN current /\ current.facts # <<>>
       THEN ListV(current.facts)
       ELSE PyNone

(***************************************************************************)
(* The inputs a ticket is run on                                           *)
(***************************************************************************)
\* the most results one search returns
MaxResults == 1

TicketId == <<"T","1">>

RecordId == <<"r","1">>

Profile == <<"d","e","v">>

Questions == { <<"n","a","m","e","?">>, <<"w","e","b","s","i","t","e","?">>, <<"h","o","u","r","s","?">> }

\* what the row store answers to the point lookup: no row, or one row
RowOf(name, website) ==
    DictV(<< <<<<"B","R","I","Z","O","_","I","D">>, StrV(RecordId)>>,
             <<<<"B","U","S","I","N","E","S","S","_","N","A","M","E">>, name>>,
             <<<<"W","E","B","S","I","T","E">>, website>> >>)

Datasets ==
    { <<>>,
      <<RowOf(StrV(<<"A","c","m","e">>), StrV(<<"a","c","m","e",".","c","o","m">>))>>,
      <<RowOf(StrV(<<"A","c","m","e">>), StrV(<<>>))>>,
      <<RowOf(StrV(<<" ">>), StrV(<<"a","c","m","e",".","c","o","m">>))>> }

\* the explicit enrichment a scenario may carry
Scenarios ==
    { [ticket_id |-> TicketId, question |-> q, record_id |-> RecordId] : q \in Questions }
    \cup { [ticket_id |-> TicketId, question |-> q, record_id |-> RecordId,
            facts |-> ListV(<<[concept |-> StrV(<<"n","e","w","_","m","e","t","r","i","c">>), value |-> FloatV(<<"1","2",".","5">>)]>>)]
           : q \in Questions }
    \cup { [ticket_id |-> TicketId, question |-> q, record_id |-> RecordId,
            enriched_fields |-> DictV(<< <<<<"b","u","s","i","n","e","s","s","_","n","a","m","e">>, StrV(<<"A","c","m","e"," ","I","n","c">>)>> >>)]
           : q \in Questions }
    \cup { [ticket_id |-> TicketId, question |-> <<"n","a","m","e","?">>, record_id |-> RecordId,
             facts |-> ListV(<<>>),
             enriched_fields |-> DictV(<< <<<<"b","u","s","i","n","e","s","s","_","n","a","m","e">>, StrV(<<"A","c","m","e"," ","I","n","c">>)>> >>)],
           [ticket_id |-> TicketId, question |-> <<"n","a","m","e","?">>, record_id |-> RecordId,
             enriched_fields |-> DictV(<<>>)],
           [ticket_id |-> TicketId, question |-> <<"n","a","m","e","?">>, record_id |-> RecordId,
             facts |-> ListV(<<StrV(<<"n","o","t","e">>),
                               [concept |-> StrV(<<"w","e","b","s","i","t","e">>), value |-> StrV(<<"a","c","m","e",".","i","o">>)]>>),
             enriched_fields |-> DictV(<< <<<<"b","u","s","i","n","e","s","s","_","n","a","m","e">>, StrV(<<"A","c","m","e"," ","I","n","c">>)>> >>)] }

\* which collaborators the dependencies carry: all, or all but one of the
\* five required ones, or no dependencies object at all
AllPresent ==
    [given |-> TRUE, sql_executor |-> TRUE, missing_data_flagger |-> TRUE,
     scraper_agent |-> TRUE, update_agent |-> TRUE, schema_agent |-> TRUE,
     gpt_client |-> TRUE, query_logger |-> "succeeds", scraper_logger |-> "succeeds",
     candidate_url_fields |-> PyNone]

DependencySets ==
    { [AllPresent EXCEPT !.gpt_client = g] : g \in BOOLEAN }
    \cup { [AllPresent EXCEPT !.given = FALSE],
           [AllPresent EXCEPT !.sql_executor = FALSE],
           [AllPresent EXCEPT !.missing_data_flagger = FALSE],
           [AllPresent EXCEPT !.scraper_agent = FALSE],
           [AllPresent EXCEPT !.update_agent = FALSE],
           [AllPresent EXCEPT !.schema_agent = FALSE] }

\* the allowed_fields the Fact Reconciler of a ticket run is configured with
RunAllowedFields == [t |-> "set", items |-> { <<"B","U","S","I","N","E","S","S","_","N","A","M","E">>, <<"W","E","B","S","I","T","E">> }]

\* what the completion client answers: it raises, or its response decodes to
\* these JSON payloads, or carries these text blocks
Raises == [raises |-> TRUE, response |-> <<>>]

Replies(response) == [raises |-> FALSE, response |-> response]

SelectionReplies ==
    { Raises,
      Replies(<<[columns |-> ListV(<<StrV(<<"w","e","b","s","i","t","e">>)>>)]>>) }

ExtractionReplies ==
    { Raises,
      Replies(<<[facts |-> ListV(<<[concept |-> StrV(<<"W","e","b","s","i","t","e">>),
                                    value |-> StrV(<<"a","c","m","e",".","i","o">>)]>>)]>>) }

ScrapedFact == [concept |-> StrV(<<"w","e","b","s","i","t","e">>), value |-> StrV(<<"a","c","m","e",".","i","o">>),
                sources |-> ListV(<<StrV(<<"h","t","t","p","s",":","/","/","a",".","e","x","a","m","p","l","e">>)>>),
                column_hint |-> StrV(<<"w","e","b","s","i","t","e">>)]

FollowUpReplies ==
    { Raises,
      Replies(<<[status |-> StrV(<<"a","n","s","w","e","r","e","d">>), facts |-> ListV(<<ScrapedFact>>)]>>),
      Replies(<<[status |-> StrV(<<"I","n","s","u","f","f","i","c","i","e","n","t">>), facts |-> ListV(<<ScrapedFact>>)]>>),
      Replies(<<[status |-> StrV(<<"i","n","s","u","f","f","i","c","i","e","n","t">>), facts |-> ListV(<<>>)]>>) }

PlanReplies ==
    { Raises, Replies(<<<<"n","e","w","s"," ","|"," ","{","c","o","m","p","a","n","y","}"," ","n","e","w","s"," ","|"," ","P","r","e","s","s">>>>) }

ReasoningReplies == { Raises, Replies(<<<<"o","k">>>>) }

SchemaReplies ==
    { Raises, Replies(<<PyNone>>),
      Replies(<<ListV(<<[name |-> StrV(<<"o","w","n","e","r"," ","n","a","m","e">>), data_type |-> StrV(<<"t","e","x","t">>)]>>)>>) }

\* what the search client does for one query
SearchResults == << [url |-> <<"h","t","t","p","s",":","/","/","a",".","e","x","a","m","p","l","e">>], [url |-> <<"h","t","t","p","s",":","/","/","b",".","e","x","a","m","p","l","e">>],
                    [url |-> <<"h","t","t","p","s",":","/","/","c",".","e","x","a","m","p","l","e">>] >>

SearchOutcomes ==
    { [raises |-> TRUE, results |-> <<>>] }
    \cup { [raises |-> FALSE, results |-> Take(SearchResults, n)] : n \in 0..MaxResults }

\* the search client's behaviour over n tasks: one outcome for the first
\* search and one for every later search (what it would do after the search
\* at which it raises is never observed)
SearchRuns(n) ==
    {s \in [1..n -> SearchOutcomes] :
        /\ \A i \in 2..n : \A j \in 2..n : s[i] = s[j]
        /\ \A i \in 2..n : s[1].raises => s[i] = s[1]}

MigrationPath == <<"m","i","g","r","a","t","i","o","n","s","/","t","i","c","k","e","t","_","t","1",".","s","q","l">>

(***************************************************************************)
(* The run of one ticket                                                   *)
(***************************************************************************)
VARIABLES
    pc,               \* the stage the run is at
    dependencies,     \* which collaborators RunnerDependencies carries
    update_agent,     \* the UpdateAgent after __post_init__
    scenario,         \* the scenario being run
    dataset,          \* the rows the row store answers to the point lookup
    agent,            \* the QueryAgent of the run, PyNone before it is built
    result,           \* the result dict of run_scenario, PyNone before answer
    answer,           \* what answer_question returned, untouched by later stages
    outcome,          \* the ScrapeOutcome of execute_plan
    update_summary,   \* what apply_enrichment returned
    schema_proposal,  \* what propose_change returned
    calls,            \* the calls made on each collaborator, in order
    events,           \* the events handed to the query and scraper observers
    raised,           \* the exception that left the run, NoError if none
    chat,             \* the chat session: its counter, active record, inputs left and printed lines
    web               \* the web frontend: the session registry and its handlers, or the broker, its queues and the workers

vars == <<pc, dependencies, update_agent, scenario, dataset, agent, result, answer,
          outcome, update_summary, schema_proposal, calls, events, raised, chat, web>>

NoCalls ==
    [load |-> <<>>, run |-> <<>>, flag_missing |-> <<>>, execute_plan |-> <<>>,
     search |-> <<>>, bulk_append |-> <<>>, incorporate |-> <<>>,
     apply_enrichment |-> <<>>, update_record |-> <<>>, escalate |-> <<>>,
     propose_change |-> <<>>, write_migration |-> <<>>, generate |-> <<>>,
     generate_raised |-> <<>>]

\* the stages among those that called the completion client at which it raised
RaisedStages(stages, reply_of) == SelectSeq(stages, LAMBDA stage : reply_of[stage].raises)

\* the ScraperAgent and SchemaAgent the dependencies carry
ScraperAgent_new(deps) ==
    [llm_client |-> deps.gpt_client, logger |-> deps.scraper_logger, default_limit |-> 5]

SchemaAgent_new(deps) == [llm_client |-> deps.gpt_client, table_name |-> <<"d","a","t","a","s","e","t">>]

\* the orders in which the keys of the fetched row can be iterated as a set
\* (one order for each lookup _build_column_lookup can build from them)
RowKeyOrders(rows) ==
    LET orders == IF rows = <<>> \/ ~Truthy(rows[1]) THEN {<<>>}
                  ELSE Orders(Range(DictKeys(rows[1])))
        lookups == {QueryAgent_build_column_lookup(o) : o \in orders}
    IN {CHOOSE o \in orders : QueryAgent_build_column_lookup(o) = l : l \in lookups}

\* the replies of a completion client: none is drawn when there is no client
RepliesOf(llm_client, replies) == IF llm_client THEN replies ELSE {Raises}

\* no chat session is open
NoChat == PyNone

\* no web frontend is running
NoWeb == PyNone

Untouched ==
    /\ agent = PyNone /\ result = PyNone /\ answer = PyNone /\ outcome = PyNone
    /\ update_summary = PyNone /\ schema_proposal = PyNone
    /\ calls = NoCalls
    /\ events = [query |-> <<>>, scraper |-> <<>>]
    /\ raised = NoError
    /\ chat = NoChat
    /\ web = NoWeb

Init ==
    /\ pc = "start"
    /\ dependencies \in DependencySets
    /\ \E order \in Orders(UpdateAgent_normalized_fields(RunAllowedFields)) :
            update_agent = UpdateAgent_post_init(RunAllowedFields, dependencies.gpt_client, order)
    /\ scenario \in Scenarios
    /\ dataset \in Datasets
    /\ Untouched

\* an exception leaves the run
Fail(error) == pc' = "failed" /\ raised' = error

AttributeError(name) == [type |-> "AttributeError", message |-> name]

\* Runner.execute up to the loading of the scenarios
RunnerExecute ==
    /\ pc = "start"
    /\ LET error == IF ~dependencies.given
                    THEN [type |-> "ValueError",
                          message |-> "Runner dependencies must be provided"]
                    ELSE validate_dependencies(dependencies)
       IN IF error # NoError
          THEN Fail(error) /\ UNCHANGED calls
          ELSE /\ pc' = "scenario"
               /\ calls' = [calls EXCEPT !.load = Append(@, Profile)]
               /\ UNCHANGED raised
    /\ UNCHANGED <<dependencies, update_agent, scenario, dataset, agent, result, answer,
                   outcome, update_summary, schema_proposal, events>>
    /\ UNCHANGED chat
    /\ UNCHANGED web

\* run_scenario up to the construction of the QueryAgent, entered from
\* Runner.execute or called directly
RunScenario ==
    /\ pc \in {"start", "scenario"}
    /\ dependencies.given
    /\ LET error == validate_dependencies(dependencies)
       IN IF error # NoError
          THEN Fail(error) /\ UNCHANGED agent
          ELSE /\ pc' = "answer"
               /\ agent' = QueryAgent_new(dependencies, <<"B","R","I","Z","O","_","I","D">>, <<"d","a","t","a","s","e","t">>)
               /\ UNCHANGED raised
    /\ UNCHANGED <<dependencies, update_agent, scenario, dataset, result, answer,
                   outcome, update_summary, schema_proposal, calls, events>>
    /\ UNCHANGED chat
    /\ UNCHANGED web

\* run_scenario: agent.answer_question
AnswerQuestion ==
    /\ pc = "answer"
    /\ \E order \in RowKeyOrders(dataset),
          selection \in RepliesOf(dependencies.gpt_client, SelectionReplies),
          extraction \in RepliesOf(dependencies.gpt_client, ExtractionReplies) :
       \E a \in {QueryAgent_answer_question(agent, scenario.ticket_id, scenario.question,
                    scenario.record_id,
                    [rows |-> dataset, order |-> order,
                     selection |-> selection, extraction |-> extraction])} :
           IF QueryAgent_log_event(agent) # NoError
           THEN /\ Fail(QueryAgent_log_event(agent))
                /\ events' = [events EXCEPT !.query = @ \o SubSeq(a.events, 1, 1)]
                /\ UNCHANGED <<agent, result, answer, calls>>
           ELSE IF ~dependencies.sql_executor
           THEN /\ Fail(AttributeError("run"))
                /\ UNCHANGED <<agent, result, answer, calls, events>>
           ELSE IF a.flag_missing # <<>> /\ ~dependencies.missing_data_flagger
           THEN /\ Fail(AttributeError("flag_missing"))
                /\ calls' = [calls EXCEPT
                               !.run = @ \o a.run,
                               !.generate = @ \o a.generate,
                               !.generate_raised = @ \o RaisedStages(a.generate,
                                    [column_selection |-> selection,
                                     direct_answer |-> extraction])]
                /\ agent' = a.self
                /\ UNCHANGED <<result, answer, events>>
           ELSE /\ pc' = IF a.result.status # "answered" THEN "scrape" ELSE "enrich"
                /\ agent' = a.self
                /\ result' = a.result
                /\ answer' = a.result
                /\ calls' = [calls EXCEPT !.run = @ \o a.run,
                                          !.flag_missing = @ \o a.flag_missing,
                                          !.generate = @ \o a.generate,
                                          !.generate_raised = @ \o RaisedStages(a.generate,
                                               [column_selection |-> selection,
                                                direct_answer |-> extraction])]
                /\ events' = [events EXCEPT !.query = @ \o a.events]
                /\ UNCHANGED raised
    /\ UNCHANGED <<dependencies, update_agent, scenario, dataset, outcome,
                   update_summary, schema_proposal>>
    /\ UNCHANGED chat
    /\ UNCHANGED web

\* _augment_with_scraper up to the recording of the scraper's tasks and
\* findings: scraper_agent.execute_plan
ExecutePlan ==
    /\ pc = "scrape"
    /\ IF ~dependencies.scraper_agent
       THEN /\ Fail([type |-> "AssertionError", message |-> "scraper_agent"])
            /\ UNCHANGED <<result, outcome, calls, events>>
       ELSE \E scraper \in {ScraperAgent_new(dependencies)},
               missing_facts \in {augment_missing_facts(result)},
               reply \in RepliesOf(dependencies.gpt_client, PlanReplies) :
            \E plan \in {ScraperAgent_plan_research(scraper, scenario.question,
                             missing_facts, scenario.ticket_id, reply)} :
            \E searches \in SearchRuns(Len(plan.tasks)) :
            \E run \in {ScraperAgent_execute_planned(scraper, scenario.ticket_id,
                            scenario.question, missing_facts, plan, searches)} :
                /\ calls' = [calls EXCEPT
                               !.execute_plan = Append(@, [ticket_id |-> scenario.ticket_id,
                                                           question |-> scenario.question,
                                                           missing_facts |-> missing_facts]),
                               !.search = @ \o run.search,
                               !.bulk_append = @ \o run.bulk_append,
                               !.generate = @ \o (IF run.generate = 1
                                                  THEN <<"search_planning">> ELSE <<>>),
                               !.generate_raised = @ \o (IF run.generate = 1 /\ reply.raises
                                                         THEN <<"search_planning">> ELSE <<>>)]
                /\ events' = [events EXCEPT !.scraper = @ \o run.events]
                /\ IF run.events # <<>>
                        /\ ScraperAgent_log_event(scraper, scenario.ticket_id) # NoError
                   THEN /\ Fail(ScraperAgent_log_event(scraper, scenario.ticket_id))
                        /\ UNCHANGED <<result, outcome>>
                   ELSE IF run.raised
                   THEN /\ Fail([type |-> "SearchError", message |-> "search"])
                        /\ UNCHANGED <<result, outcome>>
                   ELSE /\ outcome' = run.outcome
                        /\ result' =
                             PutIf(run.outcome.findings # <<>>,
                                   PutIf(run.outcome.tasks # <<>>, result,
                                         "scraper_tasks", tasks_to_dict(run.outcome.tasks)),
                                   "scraper_findings", Len(run.outcome.findings))
                        /\ pc' = IF run.outcome.findings # <<>> THEN "follow_up"
                                 ELSE "enrich"
                        /\ UNCHANGED raised
    /\ UNCHANGED <<dependencies, update_agent, scenario, dataset, agent, answer,
                   update_summary, schema_proposal>>
    /\ UNCHANGED chat
    /\ UNCHANGED web

\* the rest of _augment_with_scraper: agent.incorporate_scraper_findings and
\* the overwriting of the result
IncorporateFindings ==
    /\ pc = "follow_up"
    /\ \E order \in RowKeyOrders(dataset),
          follow_up \in RepliesOf(dependencies.gpt_client, FollowUpReplies),
          record_context \in {Get(result, "record_context")} :
       \E inc \in {QueryAgent_incorporate_scraper_findings(
                        agent, scenario.ticket_id, scenario.question, scenario.record_id,
                        outcome.findings,
                        IF record_context.t = "dict" THEN record_context ELSE PyNone,
                        [rows |-> dataset, order |-> order, follow_up |-> follow_up])} :
           /\ agent' = inc.self
           /\ calls' = [calls EXCEPT
                          !.incorporate = Append(@, [findings |-> outcome.findings,
                                                     returned |-> inc.result]),
                          !.run = @ \o inc.run,
                          !.generate = @ \o inc.generate,
                          !.generate_raised = @ \o RaisedStages(inc.generate,
                               [scraper_follow_up |-> follow_up])]
           /\ events' = [events EXCEPT !.query = @ \o inc.events]
           /\ IF inc.events # <<>> /\ QueryAgent_log_event(agent) # NoError
              THEN Fail(QueryAgent_log_event(agent)) /\ UNCHANGED result
              ELSE /\ result' = IF "status" \in DOMAIN inc.result
                                THEN augment_merge_follow_up(result, inc.result)
                                ELSE result
                   /\ pc' = "enrich"
                   /\ UNCHANGED raised
    /\ UNCHANGED <<dependencies, update_agent, scenario, dataset, answer, outcome,
                   update_summary, schema_proposal>>
    /\ UNCHANGED chat
    /\ UNCHANGED web

\* run_scenario calling apply_enrichment without waiting for the follow-up on
\* the scraper's findings
ApplyEnrichment_skipping_follow_up ==
    /\ pc \in {"follow_up", "enrich"}
    /\ \E enrichment_payload \in {Runner_resolve_enrichment_payload(result, scenario)} :
          IF ~Truthy(enrichment_payload)
          THEN /\ pc' = "done"
               /\ UNCHANGED <<result, update_summary, calls, raised>>
          ELSE IF ~dependencies.update_agent
          THEN /\ Fail(AttributeError("apply_enrichment"))
               /\ UNCHANGED <<result, update_summary, calls>>
          ELSE \E reply \in RepliesOf(dependencies.gpt_client, ReasoningReplies) :
               \E applied \in {UpdateAgent_apply_enrichment(update_agent,
                                    scenario.ticket_id, scenario.record_id,
                                    enrichment_payload, reply)} :
                    /\ update_summary' = applied.summary
                    /\ result' = Put(result, "update", applied.summary)
                    /\ calls' = [calls EXCEPT
                                   !.apply_enrichment = Append(@, enrichment_payload),
                                   !.update_record = @ \o applied.update_record,
                                   !.escalate = @ \o applied.escalate,
                                   !.generate = @ \o (IF applied.generate = 1
                                                      THEN <<"reconciliation">> ELSE <<>>),
                                   !.generate_raised = @ \o (IF applied.generate = 1 /\ reply.raises
                                                             THEN <<"reconciliation">> ELSE <<>>)]
                    /\ pc' = IF "escalated" \in DOMAIN applied.summary THEN "propose"
                             ELSE "done"
                    /\ UNCHANGED raised
    /\ UNCHANGED <<dependencies, update_agent, scenario, dataset, agent, answer, outcome,
                   schema_proposal, events>>
    /\ UNCHANGED chat
    /\ UNCHANGED web

\* run_scenario: the enrichment payload and update_agent.apply_enrichment
ApplyEnrichment ==
    /\ pc = "enrich"
    /\ \E enrichment_payload \in {Runner_resolve_enrichment_payload(result, scenario)} :
          IF ~Truthy(enrichment_payload)
          THEN /\ pc' = "done"
               /\ UNCHANGED <<result, update_summary, calls, raised>>
          ELSE IF ~dependencies.update_agent
          THEN /\ Fail(AttributeError("apply_enrichment"))
               /\ UNCHANGED <<result, update_summary, calls>>
          ELSE \E reply \in RepliesOf(dependencies.gpt_client, ReasoningReplies) :
               \E applied \in {UpdateAgent_apply_enrichment(update_agent,
                                    scenario.ticket_id, scenario.record_id,
                                    enrichment_payload, reply)} :
                    /\ update_summary' = applied.summary
                    /\ result' = Put(result, "update", applied.summary)
                    /\ calls' = [calls EXCEPT
                                   !.apply_enrichment = Append(@, enrichment_payload),
                                   !.update_record = @ \o applied.update_record,
                                   !.escalate = @ \o applied.escalate,
                                   !.generate = @ \o (IF applied.generate = 1
                                                      THEN <<"reconciliation">> ELSE <<>>),
                                   !.generate_raised = @ \o (IF applied.generate = 1 /\ reply.raises
                                                             THEN <<"reconciliation">> ELSE <<>>)]
                    /\ pc' = IF "escalated" \in DOMAIN applied.summary THEN "propose"
                             ELSE "done"
                    /\ UNCHANGED raised
    /\ UNCHANGED <<dependencies, update_agent, scenario, dataset, agent, answer, outcome,
                   schema_proposal, events>>
    /\ UNCHANGED chat
    /\ UNCHANGED web

\* run_scenario: schema_agent.propose_change on the escalation, and the
\* attaching of its proposal
ProposeChange ==
    /\ pc = "propose"
    /\ IF ~dependencies.schema_agent
       THEN /\ Fail(AttributeError("propose_change"))
            /\ UNCHANGED <<result, schema_proposal, calls>>
       ELSE \E reply \in RepliesOf(dependencies.gpt_client, SchemaReplies) :
            \E proposed \in {SchemaAgent_propose_change(SchemaAgent_new(dependencies),
                                  scenario.ticket_id, update_summary.escalated, reply,
                                  MigrationPath)} :
                 /\ schema_proposal' = proposed.proposal
                 /\ result' = Put(result, "schema_proposal", proposed.proposal)
                 /\ calls' = [calls EXCEPT
                                !.propose_change = Append(@, update_summary.escalated),
                                !.write_migration = @ \o proposed.write_migration,
                                !.generate = @ \o (IF proposed.generate = 1
                                                   THEN <<"schema_proposal">> ELSE <<>>),
                                !.generate_raised = @ \o (IF proposed.generate = 1 /\ reply.raises
                                                          THEN <<"schema_proposal">> ELSE <<>>)]
                 /\ pc' = "done"
                 /\ UNCHANGED raised
    /\ UNCHANGED <<dependencies, update_agent, scenario, dataset, agent, answer, outcome,
                   update_summary, events>>
    /\ UNCHANGED chat
    /\ UNCHANGED web

Next ==
    \/ RunnerExecute
    \/ RunScenario
    \/ AnswerQuestion
    \/ ExecutePlan
    \/ IncorporateFindings
    \/ ApplyEnrichment
    \/ ProposeChange

Spec == Init /\ [][Next]_vars

(***************************************************************************)
(* The Fact Reconciler called on its own, and the Schema Proposer fed its  *)
(* escalation                                                              *)
(***************************************************************************)
\* the most facts one apply_enrichment call is given
MaxFacts == 2

\* a fact as a caller writes it
Fact(concept, value) == [concept |-> StrV(concept), value |-> value]

HintedFact(concept, value, candidate_columns) ==
    [concept |-> StrV(concept), value |-> value,
     candidate_columns |-> ListV([i \in DOMAIN candidate_columns |->
                                    StrV(candidate_columns[i])])]

FactPool ==
    { Fact(<<"b","u","s","i","n","e","s","s","_","n","a","m","e">>, StrV(<<"A","c","m","e">>)),
      Fact(<<"B","u","s","i","n","e","s","s"," ","N","a","m","e">>, StrV(<<"B","e","t","a">>)),
      Fact(<<"b","u","s","i","n","e","s","s","_","n","a","m","e">>, StrV(<<>>)),
      Fact(<<"n","a","m","e">>, StrV(<<" ">>)),
      Fact(<<"n","e","w","_","m","e","t","r","i","c">>, FloatV(<<"1","2",".","5">>)),
      Fact(<<>>, StrV(<<"Y">>)),
      Fact(<<"b","u","s","i","n","e","s","s">>, StrV(<<"C","o","r","p">>)),
      HintedFact(<<"p","h","o","n","e">>, PyNone, << <<"B","U","S","I","N","E","S","S","_","N","A","M","E">> >>),
      HintedFact(<<"l","a","b","e","l">>, StrV(<<"W","i","d","g","e","t">>), << <<"b","u","s","i","n","e","s","s"," ","n","a","m","e">> >>) }

RECURSIVE FactLists(_)
FactLists(n) ==
    IF n = 0 THEN {<<>>}
    ELSE FactLists(n - 1)
         \cup {Append(facts, fact) : facts \in {l \in FactLists(n - 1) : Len(l) = n - 1},
                                     fact \in FactPool}

\* what a caller passes as facts: a list of facts, or a flat mapping
FactInputs ==
    {ListV(facts) : facts \in FactLists(MaxFacts)}
    \cup { DictV(<< <<<<"b","u","s","i","n","e","s","s","_","n","a","m","e">>, StrV(<<"A","c","m","e">>)>>,
                    <<<<"n","e","w","_","m","e","t","r","i","c">>, FloatV(<<"1","2",".","5">>)>> >>) }

\* the allowed_fields a Fact Reconciler is configured with: none (open
\* schema), or a set of column names (closed schema)
AllowedFieldSets ==
    { PyNone,
      [t |-> "set", items |-> { <<"B","U","S","I","N","E","S","S","_","N","A","M","E">> }],
      [t |-> "set", items |-> { <<"B","U","S","I","N","E","S","S","_","N","A","M","E">>, <<"B","U","S","I","N","E","S","S","_","P","H","O","N","E">> }],
      [t |-> "set", items |-> { <<" ","b","u","s","i","n","e","s","s"," ","n","a","m","e"," ">>, <<"W","e","b","s","i","t","e">> }] }

InitUpdate ==
    /\ pc = "reconcile"
    /\ dependencies \in { [AllPresent EXCEPT !.gpt_client = g] : g \in BOOLEAN }
    /\ \E allowed_fields \in AllowedFieldSets :
       \E order \in Orders(UpdateAgent_normalized_fields(allowed_fields)) :
            update_agent = UpdateAgent_post_init(allowed_fields, dependencies.gpt_client, order)
    /\ \E facts \in FactInputs :
            scenario = [ticket_id |-> TicketId, record_id |-> RecordId, facts |-> facts]
    /\ dataset = <<>>
    /\ Untouched

\* update_agent.apply_enrichment(ticket_id, record_id, facts)
Reconcile ==
    /\ pc = "reconcile"
    /\ \E reply \in RepliesOf(update_agent.llm_client, ReasoningReplies) :
       \E applied \in {UpdateAgent_apply_enrichment(update_agent, scenario.ticket_id,
                            scenario.record_id, scenario.facts, reply)} :
            /\ update_summary' = applied.summary
            /\ calls' = [calls EXCEPT
                           !.apply_enrichment = Append(@, scenario.facts),
                           !.update_record = @ \o applied.update_record,
                           !.escalate = @ \o applied.escalate,
                           !.generate = @ \o (IF applied.generate = 1
                                              THEN <<"reconciliation">> ELSE <<>>),
                           !.generate_raised = @ \o (IF applied.generate = 1 /\ reply.raises
                                                     THEN <<"reconciliation">> ELSE <<>>)]
            /\ pc' = IF "escalated" \in DOMAIN applied.summary THEN "escalated"
                     ELSE "reconciled"
    /\ UNCHANGED <<dependencies, update_agent, scenario, dataset, agent, result, answer,
                   outcome, schema_proposal, events, raised>>
    /\ UNCHANGED chat
    /\ UNCHANGED web

\* schema_agent.propose_change(ticket_id, evidence_summary) on the escalation
\* apply_enrichment returned, unchanged
Propose ==
    /\ pc = "escalated"
    /\ \E reply \in RepliesOf(dependencies.gpt_client, SchemaReplies) :
       \E proposed \in {SchemaAgent_propose_change(SchemaAgent_new(dependencies),
                            scenario.ticket_id, update_summary.escalated, reply,
                            MigrationPath)} :
            /\ schema_proposal' = proposed.proposal
            /\ calls' = [calls EXCEPT
                           !.propose_change = Append(@, update_summary.escalated),
                           !.write_migration = @ \o proposed.write_migration,
                           !.generate = @ \o (IF proposed.generate = 1
                                              THEN <<"schema_proposal">> ELSE <<>>),
                           !.generate_raised = @ \o (IF proposed.generate = 1 /\ reply.raises
                                                     THEN <<"schema_proposal">> ELSE <<>>)]
            /\ pc' = "proposed"
    /\ UNCHANGED <<dependencies, update_agent, scenario, dataset, agent, result, answer,
                   outcome, update_summary, events, raised>>
    /\ UNCHANGED chat
    /\ UNCHANGED web

NextUpdate ==
    \/ Reconcile
    \/ Propose

SpecUpdate == InitUpdate /\ [][NextUpdate]_vars

(***************************************************************************)
(* The Schema Proposer called on its own                                   *)
(***************************************************************************)
\* the most unknown fields one evidence summary carries
MaxFields == 2

\* the unknown fields an evidence summary may name, each with its sample
FieldPool ==
    { <<<<"n","e","w","_","m","e","t","r","i","c">>, FloatV(<<"1","2",".","5">>)>>,
      <<<<"O","w","n","e","r"," ","N","a","m","e">>, StrV(<<"A","n","n">>)>>,
      <<<<"o","p","e","n","-","c","o","u","n","t">>, IntV(3)>>,
      <<<<"i","s","_","o","p","e","n">>, BoolV(TRUE)>>,
      <<<<"t","a","g","s">>, ListV(<<StrV(<<"a">>)>>)>> }

\* the insertion-ordered mappings of up to n fields with distinct names
RECURSIVE FieldLists(_)
FieldLists(n) ==
    IF n = 0 THEN {<<>>}
    ELSE FieldLists(n - 1)
         \cup {Append(fields, field) :
                    fields \in {l \in FieldLists(n - 1) : Len(l) = n - 1},
                    field \in FieldPool}

DistinctNames(fields) == \A i, j \in DOMAIN fields : fields[i][1] = fields[j][1] => i = j

\* what a caller passes as evidence_summary: unknown fields, or the escalation
\* of the Fact Reconciler, or nothing
EvidenceSummaries ==
    { [unknown_fields |-> DictV(fields)] :
            fields \in {l \in FieldLists(MaxFields) : DistinctNames(l)} }
    \cup { [unmatched_facts |-> <<[concept |-> <<"n","e","w","_","m","e","t","r","i","c">>, value |-> FloatV(<<"1","2",".","5">>),
                                   candidate_columns |-> <<>>]>>],
           EmptyDict }

InitSchema ==
    /\ pc = "schema"
    /\ dependencies \in { [AllPresent EXCEPT !.gpt_client = g] : g \in BOOLEAN }
    /\ update_agent = PyNone
    /\ \E evidence_summary \in EvidenceSummaries :
            scenario = [ticket_id |-> TicketId, evidence_summary |-> evidence_summary]
    /\ dataset = <<>>
    /\ Untouched

\* schema_agent.propose_change(ticket_id, evidence_summary)
ProposeChangeAlone ==
    /\ pc = "schema"
    /\ \E reply \in RepliesOf(dependencies.gpt_client, SchemaReplies) :
       \E proposed \in {SchemaAgent_propose_change(SchemaAgent_new(dependencies),
                            scenario.ticket_id, scenario.evidence_summary, reply,
                            MigrationPath)} :
            /\ schema_proposal' = proposed.proposal
            /\ calls' = [calls EXCEPT
                           !.propose_change = Append(@, scenario.evidence_summary),
                           !.write_migration = @ \o proposed.write_migration,
                           !.generate = @ \o (IF proposed.generate = 1
                                              THEN <<"schema_proposal">> ELSE <<>>),
                           !.generate_raised = @ \o (IF proposed.generate = 1 /\ reply.raises
                                                     THEN <<"schema_proposal">> ELSE <<>>)]
            /\ pc' = "designed"
    /\ UNCHANGED <<dependencies, update_agent, scenario, dataset, agent, result, answer,
                   outcome, update_summary, events, raised>>
    /\ UNCHANGED chat
    /\ UNCHANGED web

NextSchema == ProposeChangeAlone

SpecSchema == InitSchema /\ [][NextSchema]_vars

(***************************************************************************)
(* Every agent call that asks the completion client: the run of one ticket *)
(* and the Schema Proposer given unknown fields                            *)
(***************************************************************************)
InitAgents == Init \/ InitSchema

NextAgents ==
    \/ Next
    \/ ProposeChangeAlone

SpecAgents == InitAgents /\ [][NextAgents]_vars

(***************************************************************************)
(* Properties of the run of one ticket                                     *)
(***************************************************************************)
\* the four statuses a result may carry
ResultStatuses == {"record_not_found", "unknown_question", "missing_values", "answered"}

\* the run has a result
HasResult == "status" \in DOMAIN result

\* answer_question has returned
HasAnswer == "status" \in DOMAIN answer

\* d[k] of a dict whose key k holds a list, <<>> when the key is absent
ListAt(d, k) == IF k \in DOMAIN d THEN d[k] ELSE <<>>

\* the entries of d[k] when the key k holds a mapping, <<>> when it is absent
ItemsAt(d, k) == IF k \in DOMAIN d THEN d[k].items ELSE <<>>

\* C1: an exception of the search client raised during a task of execute_plan
\* never leaves execute_plan: no run ends with that exception in flight, every
\* run that searched goes on to a result with a status.
C1_SearchErrorIsCaught ==
    ~(pc = "failed" /\ raised.type = "SearchError")

\* C3: execute_plan is invoked exactly once when answer_question returned a
\* status other than answered, with the missing columns, candidate URLs and
\* record context of that answer, and never when the status is answered (nor
\* before answer_question has returned).
C3_ScraperInvokedOnceWhenUnanswered ==
    /\ ~HasAnswer => calls.execute_plan = <<>>
    /\ HasAnswer /\ answer.status = "answered" => calls.execute_plan = <<>>
    /\ HasAnswer /\ answer.status # "answered" /\ pc = "scrape" => calls.execute_plan = <<>>
    /\ HasAnswer /\ answer.status # "answered" /\ pc # "scrape" =>
            /\ Len(calls.execute_plan) = 1
            /\ calls.execute_plan[1].ticket_id = scenario.ticket_id
            /\ calls.execute_plan[1].question = scenario.question
            /\ calls.execute_plan[1].missing_facts.status = answer.status
            /\ ListAt(calls.execute_plan[1].missing_facts, "missing_columns")
                    = ListAt(answer, "missing_columns")
            /\ ListAt(calls.execute_plan[1].missing_facts, "candidate_urls")
                    = ListAt(answer, "candidate_urls")
            /\ ItemsAt(calls.execute_plan[1].missing_facts, "record_context")
                    = ItemsAt(answer, "record_context")

\* C3 witness: an unanswered question whose answer carried candidate URLs and
\* a record context went through execute_plan
C3_Witness ==
    /\ HasAnswer /\ answer.status = "unknown_question" /\ pc = "enrich"
    /\ Len(calls.execute_plan) = 1
    /\ answer.candidate_urls # <<>>
    /\ answer.record_context.items # <<>>
    /\ calls.execute_plan[1].missing_facts.candidate_urls = answer.candidate_urls
    /\ calls.execute_plan[1].missing_facts.record_context = answer.record_context

\* C4: the result of every ticket carries one of the four statuses, also
\* after a scraper follow-up has overwritten the status of answer_question.
C4_StatusIsOneOfFour ==
    HasResult => result.status \in ResultStatuses

\* one of the five required dependencies is absent
RequiredAbsent ==
    \/ ~dependencies.sql_executor
    \/ ~dependencies.missing_data_flagger
    \/ ~dependencies.scraper_agent
    \/ ~dependencies.update_agent
    \/ ~dependencies.schema_agent

\* C5: with one of the five required dependencies absent, Runner.execute and
\* run_scenario raise a configuration error (ValueError) before any scenario
\* is loaded and before any collaborator is called.
C5_AbsentDependencyIsFatal ==
    dependencies.given /\ RequiredAbsent =>
        /\ pc \in {"start", "failed"}
        /\ pc = "failed" => raised.type = "ValueError"
        /\ calls = NoCalls
        /\ ~HasResult

\* C5 witness: the run failed on an absent scraper agent
C5_Witness ==
    /\ dependencies.given /\ ~dependencies.scraper_agent
    /\ pc = "failed"
    /\ raised = [type |-> "ValueError", message |-> "Scraper agent dependency is required"]
    /\ calls = NoCalls

\* the columns answer_question selected, as it reported them to the observer
SelectedColumns ==
    LET at == {i \in DOMAIN events.query : events.query[i].event = "columns_inferred"}
    IN IF at = {} THEN <<>> ELSE events.query[CHOOSE i \in at : TRUE].payload.columns

\* the point lookup yields a row
RowFound == dataset # <<>>

\* a value that is None, or a text of nothing but whitespace
IsBlank(value) ==
    \/ value.t = "none"
    \/ value.t = "str" /\ \A i \in DOMAIN value.s : IsSpace(value.s[i])

\* the selected columns that hold a non-empty value in the record
ValuedColumns ==
    IF RowFound
    THEN SelectSeq(SelectedColumns, LAMBDA column : ~IsBlank(DictGet(dataset[1], column)))
    ELSE <<>>

\* C6: answer_question returns record_not_found when the lookup yields no
\* row, unknown_question when no column is selected, missing_values (with the
\* selected columns as missing_columns) when columns are selected and no fact
\* is resolved, answered otherwise; the missing-data sink is called exactly
\* once in the first three cases and never in the answered case.
C6_StatusByCase ==
    HasAnswer =>
        /\ answer.status \in ResultStatuses
        /\ answer.status = "record_not_found" <=> ~RowFound
        /\ answer.status = "unknown_question" <=> RowFound /\ SelectedColumns = <<>>
        /\ answer.status = "missing_values" <=>
                RowFound /\ SelectedColumns # <<>> /\ ListAt(answer, "facts") = <<>>
        /\ answer.status = "missing_values" =>
                /\ answer.missing_columns = SelectedColumns
                /\ ValuedColumns = <<>>
        /\ answer.status = "answered" <=> ListAt(answer, "facts") # <<>>
        /\ Len(calls.flag_missing) = IF answer.status = "answered" THEN 0 ELSE 1
        /\ answer.status # "answered" =>
                /\ calls.flag_missing[1].ticket_id = scenario.ticket_id
                /\ calls.flag_missing[1].question = scenario.question
                /\ calls.flag_missing[1].facts.reason = answer.status
                /\ answer.status = "missing_values" =>
                        calls.flag_missing[1].facts.missing_columns = SelectedColumns

\* C6 witness: columns were selected, none held a value and no fact was
\* extracted, and the sink was called once
C6_Witness ==
    /\ HasAnswer /\ answer.status = "missing_values"
    /\ SelectedColumns # <<>>
    /\ Len(calls.flag_missing) = 1

\* C7: when a selected column holds a non-empty value in the record,
\* answer_question returns answered, its facts are exactly the dataset-origin
\* facts of confidence 1.0 of the selected columns with a non-empty value, in
\* order, and no fact-extraction completion call is made.
C7_DirectFactsAnswer ==
    HasAnswer /\ ValuedColumns # <<>> =>
        /\ answer.status = "answered"
        /\ Len(answer.facts) = Len(ValuedColumns)
        /\ \A i \in DOMAIN ValuedColumns :
                /\ answer.facts[i].candidate_columns = ListV(<<StrV(ValuedColumns[i])>>)
                /\ answer.facts[i].value = DictGet(dataset[1], ValuedColumns[i])
                /\ answer.facts[i].origin = "dataset"
                /\ answer.facts[i].confidence = ConfidenceOne
        /\ \A i \in DOMAIN calls.generate : calls.generate[i] # "direct_answer"

\* C7 witness: a completion client is at hand and a selected column holds a
\* value
C7_Witness ==
    /\ HasAnswer /\ ValuedColumns # <<>>
    /\ dependencies.gpt_client
    /\ answer.status = "answered"

(***************************************************************************)
(* Properties of the Fact Reconciler and of the Schema Proposer fed its    *)
(* escalation                                                              *)
(***************************************************************************)
\* apply_enrichment has returned
Reconciled == pc \in {"reconciled", "escalated", "proposed"}

\* the facts apply_enrichment was given, one entry per fact
InputFacts == UpdateAgent_coerce_fact_sequence(scenario.facts)

\* the concept and the candidate-column hints of a fact, as texts
ConceptOf(fact) == str_strip(fact.concept.s)

HintsOf(fact) == UpdateAgent_coerce_candidate_columns(Get(fact, "candidate_columns"))

\* the columns a fact names: its concept and its hints as column names, and
\* the column the reconciler maps it to
FactColumns(fact) ==
    LET named == {UpdateAgent_normalize_label(ConceptOf(fact))}
                 \cup {UpdateAgent_normalize_label(HintsOf(fact)[i]) : i \in DOMAIN HintsOf(fact)}
        mapped == UpdateAgent_match_fact_to_column(update_agent, ConceptOf(fact), HintsOf(fact))
    IN (named \ {<<>>}) \cup (IF mapped.t = "none" THEN {} ELSE {mapped.s})

\* the payload handed to the schema escalator and returned under escalated
Escalated == IF "escalated" \in DOMAIN update_summary THEN update_summary.escalated
             ELSE EmptyDict

\* the columns written through the record writer
WrittenColumns == UNION {DOMAIN calls.update_record[k].payload : k \in DOMAIN calls.update_record}

\* the input facts with an empty value, as empty_facts lists them
BlankFacts ==
    LET blank == SelectSeq(InputFacts, LAMBDA fact : IsBlank(fact.value))
    IN [i \in DOMAIN blank |->
            [concept |-> ConceptOf(blank[i]), candidate_columns |-> HintsOf(blank[i])]]

\* C2: the escalation apply_enrichment returns for unmatched facts, passed
\* unchanged to propose_change, yields one column proposal per unmatched fact
\* and a written migration, never the empty no-op proposal.
C2_EscalationYieldsColumns ==
    pc = "proposed" /\ "unmatched_facts" \in DOMAIN update_summary.escalated =>
        /\ Len(schema_proposal.columns) = Len(update_summary.escalated.unmatched_facts)
        /\ Len(calls.write_migration) = 1
        /\ "notes" \notin DOMAIN schema_proposal

AppliedAs(fact, entry) ==
    /\ entry.value = fact.value
    /\ entry.candidates = HintsOf(fact)
    /\ entry.concept = IF ConceptOf(fact) # <<>> THEN ConceptOf(fact) ELSE entry.column

C10_WritesOnlyAllowedColumns ==
    Reconciled /\ update_agent.allowed_fields.t = "set" =>
        WrittenColumns \subseteq update_agent.allowed_fields.items

\* C10 witness: under a closed schema a fact was written through a hint and
\* another fact was refused
C10_Witness ==
    /\ Reconciled /\ update_agent.allowed_fields.t = "set"
    /\ WrittenColumns # {}
    /\ \E i \in DOMAIN InputFacts : HintsOf(InputFacts[i]) # <<>> /\ ~IsBlank(InputFacts[i].value)
    /\ ListAt(Escalated, "unmatched_facts") # <<>>

\* neither a candidate hint of the fact nor its canonical concept name
\* resolves to a column of the closed schema
Unresolved(fact) ==
    /\ \A i \in DOMAIN HintsOf(fact) :
            UpdateAgent_resolve_candidate_column(update_agent, HintsOf(fact)[i]) = PyNone
    /\ UpdateAgent_normalize_label(ConceptOf(fact)) \notin DOMAIN update_agent.column_lookup

\* the allowed columns whose tokens contain the tokens of the fact's concept
TokenMatches(fact) ==
    {column \in DOMAIN update_agent.column_tokens :
        UpdateAgent_tokens_from_label(ConceptOf(fact)) \subseteq update_agent.column_tokens[column]}

\* the columns applied_facts reports the fact as written to
AppliedColumns(fact) ==
    {update_summary.applied_facts[j].column :
        j \in {k \in DOMAIN ListAt(update_summary, "applied_facts") :
                    AppliedAs(fact, update_summary.applied_facts[k])}}

\* unmatched_facts lists the fact
ListedUnmatched(fact) ==
    \E j \in DOMAIN ListAt(Escalated, "unmatched_facts") :
        Escalated.unmatched_facts[j] =
            [concept |-> ConceptOf(fact), value |-> fact.value,
             candidate_columns |-> HintsOf(fact)]

\* C11: with allowed_fields configured, a non-empty fact whose hints and
\* canonical concept name resolve to no column is written only when exactly
\* one allowed column's tokens contain the concept's tokens, and then to that
\* column; when two or more allowed columns do, it is written to no column and
\* escalated as unmatched.
C11_AmbiguousTokensNotWritten ==
    Reconciled /\ update_agent.allowed_fields.t = "set" =>
        \A i \in DOMAIN InputFacts :
            ~IsBlank(InputFacts[i].value) /\ Unresolved(InputFacts[i]) =>
                /\ Cardinality(TokenMatches(InputFacts[i])) >= 2 =>
                        /\ AppliedColumns(InputFacts[i]) = {}
                        /\ ListedUnmatched(InputFacts[i])
                /\ AppliedColumns(InputFacts[i]) # {} =>
                        /\ Cardinality(TokenMatches(InputFacts[i])) = 1
                        /\ AppliedColumns(InputFacts[i]) = TokenMatches(InputFacts[i])
                        /\ AppliedColumns(InputFacts[i]) \subseteq WrittenColumns

\* C11 witness: the tokens of a non-empty fact's concept are among those of
\* two allowed columns, and the fact was escalated and not written
C11_Witness ==
    /\ Reconciled /\ update_agent.allowed_fields.t = "set"
    /\ \E i \in DOMAIN InputFacts :
            /\ ~IsBlank(InputFacts[i].value) /\ Unresolved(InputFacts[i])
            /\ UpdateAgent_tokens_from_label(ConceptOf(InputFacts[i])) # {}
            /\ Cardinality(TokenMatches(InputFacts[i])) = 2
            /\ AppliedColumns(InputFacts[i]) = {}
            /\ ListedUnmatched(InputFacts[i])

(***************************************************************************)
(* Properties of the agent calls that ask the completion client            *)
(***************************************************************************)
\* the completion client raised at the stage
CompletionRaisedAt(stage) == \E i \in DOMAIN calls.generate_raised : calls.generate_raised[i] = stage

\* the columns the heuristic matching of the question against the names of
\* the row's columns gives
HeuristicColumns ==
    Take(QueryAgent_infer_columns_from_question(agent, scenario.question, dataset[1]),
         agent.max_columns)

\* the tasks plan_research gives without a completion client
TasksWithoutCompletion ==
    ScraperAgent_plan_research([ScraperAgent_new(dependencies) EXCEPT !.llm_client = FALSE],
                               scenario.question, calls.execute_plan[1].missing_facts,
                               scenario.ticket_id, Raises).tasks

\* C12: an exception of the completion client never leaves the agent method
\* that called it, which goes on with its fallback: the heuristic column
\* matching (column selection), no facts from the completion (fact
\* extraction), no follow-up result (scraper follow-up), no tasks from the
\* completion (search planning), no reasoning text (reconciliation) and the
\* statically inferred columns (schema proposal).
C12_CompletionErrorFallsBack ==
    /\ calls.generate_raised # <<>> /\ pc = "failed" => raised.type = "SearchError"
    /\ CompletionRaisedAt("column_selection") =>
            /\ HasAnswer
            /\ SelectedColumns = HeuristicColumns
    /\ CompletionRaisedAt("direct_answer") =>
            /\ HasAnswer
            /\ answer.status = "missing_values"
            /\ "facts" \notin DOMAIN answer
    /\ CompletionRaisedAt("search_planning") =>
            /\ Len(calls.execute_plan) = 1
            /\ pc # "failed" => outcome.tasks = TasksWithoutCompletion
    /\ CompletionRaisedAt("scraper_follow_up") =>
            /\ Len(calls.incorporate) = 1
            /\ calls.incorporate[1].returned = PyNone
            /\ result.status = answer.status
            /\ ListAt(result, "facts") = ListAt(answer, "facts")
    /\ CompletionRaisedAt("reconciliation") =>
            /\ "status" \in DOMAIN update_summary
            /\ "reasoning" \notin DOMAIN update_summary
    /\ CompletionRaisedAt("schema_proposal") =>
            /\ pc = "designed"
            /\ schema_proposal.columns =
                    SchemaAgent_static_proposals(scenario.evidence_summary.unknown_fields)
            /\ Len(calls.write_migration) = 1

\* C12 witness: in one run the completion client raised at the column
\* selection, the fact extraction, the search planning, the scraper follow-up
\* and the reconciliation reasoning, and the run went on to its end
C12_Witness ==
    /\ pc \in {"done", "propose"}
    /\ \A stage \in {"column_selection", "direct_answer", "search_planning",
                      "scraper_follow_up", "reconciliation"} : CompletionRaisedAt(stage)
    /\ SelectedColumns # <<>>
    /\ outcome.findings # <<>>

\* C12 witness of the schema proposal: the completion client raised and the
\* proposal holds the statically inferred columns
C12_SchemaWitness ==
    /\ pc = "designed"
    /\ CompletionRaisedAt("schema_proposal")
    /\ schema_proposal.columns # <<>>

(***************************************************************************)
(* Properties of the scraper follow-up within the run of one ticket        *)
(***************************************************************************)
\* incorporate_scraper_findings has been called and has returned
FollowedUp == calls.incorporate # <<>>

\* what incorporate_scraper_findings returned: PyNone or a follow-up result
FollowUp == calls.incorporate[1].returned

\* C13: when the scraper follow-up returns a result, the run's result takes
\* the follow-up's status and facts, keeps the status answer_question had
\* returned under previous_status and loses the missing_columns and answers
\* keys; when the follow-up returns nothing, status, facts and missing_columns
\* stay as answer_question returned them.
C13_FollowUpOverwritesResult ==
    FollowedUp =>
        IF FollowUp # PyNone
        THEN /\ result.status = FollowUp.status
             /\ result.facts = FollowUp.facts
             /\ result.previous_status = answer.status
             /\ "missing_columns" \notin DOMAIN result
             /\ "answers" \notin DOMAIN result
        ELSE /\ result.status = answer.status
             /\ "previous_status" \notin DOMAIN result
             /\ "facts" \in DOMAIN result <=> "facts" \in DOMAIN answer
             /\ ListAt(result, "facts") = ListAt(answer, "facts")
             /\ "missing_columns" \in DOMAIN result <=> "missing_columns" \in DOMAIN answer
             /\ ListAt(result, "missing_columns") = ListAt(answer, "missing_columns")

\* C13 witness: answer_question had reported missing values with their
\* columns, and the follow-up returned facts that replaced them
C13_Witness ==
    /\ FollowedUp /\ FollowUp # PyNone
    /\ answer.status = "missing_values" /\ answer.missing_columns # <<>>
    /\ result.previous_status = "missing_values"
    /\ result.status = "answered" /\ result.facts # <<>>
    /\ "missing_columns" \notin DOMAIN result

(***************************************************************************)
(* Properties of the enrichment and of the order of the stages             *)
(***************************************************************************)
\* run_scenario is past the call of the Fact Reconciler
PastEnrichment == pc \in {"propose", "done"}

\* the facts the scenario supplies itself: the entries of its facts list,
\* or else its enriched_fields mapping as facts
ExplicitFacts ==
    LET listed == IF "facts" \in DOMAIN scenario /\ scenario.facts.t = "list"
                  THEN SelectSeq(scenario.facts.items, IsDict) ELSE <<>>
        mapped == IF "enriched_fields" \in DOMAIN scenario /\ scenario.enriched_fields.t = "dict"
                  THEN [i \in DOMAIN scenario.enriched_fields.items |->
                            [concept |-> StrV(scenario.enriched_fields.items[i][1]),
                             value |-> scenario.enriched_fields.items[i][2]]]
                  ELSE <<>>
    IN IF listed # <<>> THEN listed ELSE mapped

\* C14: the scenario's explicit facts, when there are any, are what the Fact
\* Reconciler is given, whatever the agents derived; apply_enrichment is
\* invoked exactly once when the enrichment payload is non-empty and never
\* when it is empty, in particular never when the final status is not
\* answered and the scenario supplies no facts (nor before the answer and the
\* follow-up are through).
C14_ExplicitFactsReachReconciler ==
    /\ ~PastEnrichment => calls.apply_enrichment = <<>>
    /\ PastEnrichment =>
            /\ Len(calls.apply_enrichment) <= 1
            /\ \A k \in DOMAIN calls.apply_enrichment : calls.apply_enrichment[k].items # <<>>
            /\ ExplicitFacts # <<>> => calls.apply_enrichment = <<ListV(ExplicitFacts)>>
            /\ ExplicitFacts = <<>> /\ result.status # "answered" => calls.apply_enrichment = <<>>
            /\ ExplicitFacts = <<>> /\ calls.apply_enrichment # <<>> =>
                    calls.apply_enrichment = <<ListV(result.facts)>>
            /\ calls.apply_enrichment = <<>> <=> "update" \notin DOMAIN result

\* C14 witness: the agents answered with facts of their own and the
\* reconciler was given the facts of the scenario
C14_Witness ==
    /\ PastEnrichment
    /\ result.status = "answered" /\ result.facts # <<>>
    /\ ExplicitFacts # <<>>
    /\ calls.apply_enrichment = <<ListV(ExplicitFacts)>>
    /\ calls.apply_enrichment[1] # ListV(result.facts)

\* one step of the run respects the order of the stages
StageOrder ==
    /\ HasAnswer' /\ ~HasAnswer =>
            /\ calls.execute_plan = <<>> /\ calls.incorporate = <<>>
            /\ calls.apply_enrichment = <<>> /\ calls.propose_change = <<>>
    /\ calls'.execute_plan # calls.execute_plan =>
            /\ HasAnswer
            /\ calls.execute_plan = <<>> /\ calls.incorporate = <<>>
            /\ calls.apply_enrichment = <<>> /\ calls.propose_change = <<>>
    /\ calls'.incorporate # calls.incorporate =>
            /\ Len(calls.execute_plan) = 1
            /\ calls.incorporate = <<>>
            /\ calls.apply_enrichment = <<>> /\ calls.propose_change = <<>>
    /\ calls'.apply_enrichment # calls.apply_enrichment =>
            /\ HasAnswer
            /\ answer.status # "answered" => Len(calls.execute_plan) = 1
            /\ Len(calls.execute_plan) = 1 /\ outcome.findings # <<>> =>
                    Len(calls.incorporate) = 1
            /\ calls.apply_enrichment = <<>> /\ calls.propose_change = <<>>
            /\ "escalated" \notin DOMAIN update_summary' => pc' = "done"
    /\ calls'.propose_change # calls.propose_change =>
            /\ calls.propose_change = <<>>
            /\ Len(calls.apply_enrichment) = 1
            /\ "escalated" \in DOMAIN update_summary
            /\ DOMAIN update_summary.escalated # {}
            /\ calls'.propose_change = <<update_summary.escalated>>
            /\ schema_proposal' # PyNone
            /\ result' = Put(result, "schema_proposal", schema_proposal')
    /\ pc' = "done" =>
            /\ calls'.propose_change # <<>> <=> "escalated" \in DOMAIN update_summary'
            /\ calls'.propose_change # <<>> <=> "schema_proposal" \in DOMAIN result'

\* C15: within one ticket the stages run in the order answer, execute_plan,
\* incorporate_scraper_findings, apply_enrichment, propose_change; the Schema
\* Proposer is invoked at most once, only after apply_enrichment returned a
\* summary with a non-empty escalation, and its proposal is then attached to
\* the result as schema_proposal; without an escalation it is never invoked.
C15_StagesRunInOrder == [][StageOrder]_vars

\* C15 witness: a run went through all five stages and attached the proposal
C15_Witness ==
    /\ pc = "done"
    /\ Len(calls.execute_plan) = 1 /\ Len(calls.incorporate) = 1
    /\ Len(calls.apply_enrichment) = 1 /\ Len(calls.propose_change) = 1
    /\ "escalated" \in DOMAIN update_summary
    /\ result.schema_proposal = schema_proposal

\* C16: within one ticket, when answer_question and then
\* incorporate_scraper_findings are called for the same record id, the row
\* store is queried exactly once: the follow-up reuses the memoized row
\* whatever the first lookup gave.
C16_RowStoreQueriedOnce ==
    FollowedUp => Len(calls.run) = 1

\* C17: incorporate_scraper_findings returns None when the findings are
\* empty, when no completion client is configured, or when the parsed payload
\* yields no facts; every result it returns has a non-empty fact list, status
\* answered and answer_origin scraper; the call invokes neither the
\* missing-data sink nor the record writer.
C17_FollowUpIsAnsweredOrNone ==
    FollowedUp =>
        /\ calls.incorporate[1].findings = <<>> => FollowUp = PyNone
        /\ ~dependencies.gpt_client => FollowUp = PyNone
        /\ FollowUp # PyNone =>
                /\ FollowUp.facts # <<>>
                /\ FollowUp.status = "answered"
                /\ FollowUp.answer_origin = "scraper"
        /\ Len(calls.flag_missing) = 1
        /\ pc = "enrich" => calls.update_record = <<>>

(***************************************************************************)
(* The Text-Payload Extractor: QueryAgent._iter_json_payloads over the     *)
(* text blocks of a response, the text being a string of characters        *)
(***************************************************************************)
\* the whitespace json skips between tokens
JsonWhitespace == {" ", "\t", "\n", "\r"}

\* the first index from i on that holds no whitespace (Len(s) + 1 at the end)
RECURSIVE SkipWhitespace(_, _)
SkipWhitespace(s, i) ==
    IF i <= Len(s) /\ s[i] \in JsonWhitespace THEN SkipWhitespace(s, i + 1) ELSE i

\* s[i-1:j] of Python for the 1-based indices i..j
Slice(s, i, j) == SubSeq(s, i, IF j > Len(s) THEN Len(s) ELSE j)

\* s[i:i+1]
CharAt(s, i) == IF i \in DOMAIN s THEN s[i] ELSE ""

\* a decode that raised json.JSONDecodeError
JSONDecodeError == [ok |-> FALSE]

\* a decode that gave value and stopped before index end
Decoded(value, end) == [ok |-> TRUE, value |-> value, end |-> end]

\* the index of the quote closing the string whose text starts at i, 0 when
\* the string is not terminated or holds a control character (strict mode);
\* the texts decoded here hold no backslash
RECURSIVE ClosingQuote(_, _)
ClosingQuote(s, i) ==
    IF i > Len(s) \/ s[i] \in {"\n", "\t", "\r", "\\"} THEN 0
    ELSE IF s[i] = "\"" THEN i
    ELSE ClosingQuote(s, i + 1)

\* json.decoder.scanstring(s, i): i is the index after the opening quote
json_scanstring(s, i) ==
    With([close \in {ClosingQuote(s, i)} |->
        IF close = 0 THEN JSONDecodeError
        ELSE Decoded(StrV(SubSeq(s, i, close - 1)), close + 1)])

\* the end of the run of digits starting at i
RECURSIVE DigitsEnd(_, _)
DigitsEnd(s, i) ==
    IF i <= Len(s) /\ s[i] \in Range(DigitChars) THEN DigitsEnd(s, i + 1) ELSE i

\* the value of the digits s[i..j-1]
RECURSIVE DigitsValue(_, _, _, _)
DigitsValue(s, i, j, acc) ==
    IF i >= j THEN acc
    ELSE DigitsValue(s, i + 1, j,
             10 * acc + (CHOOSE d \in 0..9 : DigitChars[d + 1] = s[i]))

\* the NUMBER_RE match of json.scanner at i: (-?(?:0|[1-9]\d*)), the texts
\* decoded here hold no fraction and no exponent
json_match_number(s, i) ==
    With([first \in {IF CharAt(s, i) = "-" THEN i + 1 ELSE i} |->
        IF CharAt(s, first) \notin Range(DigitChars) THEN JSONDecodeError
        ELSE With([end \in {IF s[first] = "0" THEN first + 1 ELSE DigitsEnd(s, first)} |->
                Decoded(IntV((IF first = i THEN 1 ELSE -1) * DigitsValue(s, first, end, 0)),
                        end)])])

\* dict(pairs): a key keeps its first place and takes its last value
RECURSIVE DictFromPairs(_, _)
DictFromPairs(pairs, items) ==
    IF pairs = <<>> THEN DictV(items)
    ELSE With([pair \in {Head(pairs)} |->
            IF \E k \in DOMAIN items : items[k][1] = pair[1]
            THEN DictFromPairs(Tail(pairs),
                     [k \in DOMAIN items |->
                         IF items[k][1] = pair[1] THEN pair ELSE items[k]])
            ELSE DictFromPairs(Tail(pairs), Append(items, pair))])

RECURSIVE json_scan_once(_, _)
RECURSIVE json_object_pairs(_, _, _)
RECURSIVE json_array_values(_, _, _)

\* json.decoder.JSONObject(s, end): end is the index after the brace
json_JSONObject(s, end) ==
    With([first \in {IF CharAt(s, end) # "\"" THEN SkipWhitespace(s, end) ELSE end} |->
        IF CharAt(s, first) = "}" THEN Decoded(DictV(<<>>), first + 1)
        ELSE IF CharAt(s, first) # "\"" THEN JSONDecodeError
        ELSE json_object_pairs(s, first + 1, <<>>)])

\* the loop of JSONObject over the pairs: i is the index after the quote
\* that opens the next key
json_object_pairs(s, i, pairs) ==
    With([key \in {json_scanstring(s, i)} |->
        IF ~key.ok THEN JSONDecodeError
        ELSE With([colon \in {SkipWhitespace(s, key.end)} |->
            IF CharAt(s, colon) # ":" THEN JSONDecodeError
            ELSE With([item \in {json_scan_once(s, SkipWhitespace(s, colon + 1))} |->
                IF ~item.ok THEN JSONDecodeError
                ELSE With([next \in {SkipWhitespace(s, item.end)} |->
                    IF CharAt(s, next) = "}"
                    THEN Decoded(DictFromPairs(Append(pairs, <<key.value.s, item.value>>), <<>>),
                                 next + 1)
                    ELSE IF CharAt(s, next) # "," THEN JSONDecodeError
                    ELSE With([quote \in {SkipWhitespace(s, next + 1)} |->
                        IF CharAt(s, quote) # "\"" THEN JSONDecodeError
                        ELSE json_object_pairs(s, quote + 1,
                                 Append(pairs, <<key.value.s, item.value>>))])])])])])

\* json.decoder.JSONArray(s, end): end is the index after the bracket
json_JSONArray(s, end) ==
    With([first \in {SkipWhitespace(s, end)} |->
        IF CharAt(s, first) = "]" THEN Decoded(ListV(<<>>), first + 1)
        ELSE json_array_values(s, first, <<>>)])

\* the loop of JSONArray over the values: i is where the next value starts
json_array_values(s, i, values) ==
    With([item \in {json_scan_once(s, i)} |->
        IF ~item.ok THEN JSONDecodeError
        ELSE With([next \in {SkipWhitespace(s, item.end)} |->
            IF CharAt(s, next) = "]"
            THEN Decoded(ListV(Append(values, item.value)), next + 1)
            ELSE IF CharAt(s, next) # "," THEN JSONDecodeError
            ELSE json_array_values(s, SkipWhitespace(s, next + 1),
                     Append(values, item.value))])])

\* json.scanner.py_make_scanner._scan_once(string, idx)
json_scan_once(s, idx) ==
    With([nextchar \in {CharAt(s, idx)} |->
        IF nextchar = "\"" THEN json_scanstring(s, idx + 1)
        ELSE IF nextchar = "{" THEN json_JSONObject(s, idx + 1)
        ELSE IF nextchar = "[" THEN json_JSONArray(s, idx + 1)
        ELSE IF nextchar = "n" /\ Slice(s, idx, idx + 3) = <<"n","u","l","l">>
        THEN Decoded(PyNone, idx + 4)
        ELSE IF nextchar = "t" /\ Slice(s, idx, idx + 3) = <<"t","r","u","e">>
        THEN Decoded(BoolV(TRUE), idx + 4)
        ELSE IF nextchar = "f" /\ Slice(s, idx, idx + 4) = <<"f","a","l","s","e">>
        THEN Decoded(BoolV(FALSE), idx + 5)
        ELSE json_match_number(s, idx)])

\* json.JSONDecoder().raw_decode(s, idx)
JSONDecoder_raw_decode(s, idx) == json_scan_once(s, idx)

\* the character U+0060, which a string of this language cannot hold
Backquote == "backquote"

\* the Markdown code fence
Fence == <<Backquote, Backquote, Backquote>>

\* the first re.sub of _decode_json_strings: an opening fence, bare or tagged
\* json, and its newline are removed
StripOpeningFence(cleaned) ==
    IF StartsWith(cleaned, Fence \o <<"j","s","o","n","\n">>) THEN Slice(cleaned, 9, Len(cleaned))
    ELSE IF StartsWith(cleaned, Fence \o <<"\n">>) THEN Slice(cleaned, 5, Len(cleaned))
    ELSE cleaned

\* the second re.sub of _decode_json_strings: a closing fence at the end of
\* the text, which ends with no whitespace, is removed
StripClosingFence(cleaned) ==
    IF Len(cleaned) >= 3 /\ Slice(cleaned, Len(cleaned) - 2, Len(cleaned)) = Fence
    THEN Slice(cleaned, 1, Len(cleaned) - 3)
    ELSE cleaned

\* the dicts a decoded value adds to the results of _decode_json_strings
DictsOf(value) ==
    IF value.t = "dict" THEN <<value>>
    ELSE IF value.t = "list" THEN SelectSeq(value.items, LAMBDA item : item.t = "dict")
    ELSE <<>>

\* the while loop of _decode_json_strings from index on (1-based)
RECURSIVE QueryAgent_decode_scan(_, _, _)
QueryAgent_decode_scan(cleaned, index, results) ==
    IF index > Len(cleaned) THEN results
    ELSE IF cleaned[index] \notin {"[", "{"}
    THEN QueryAgent_decode_scan(cleaned, index + 1, results)
    ELSE With([decoded \in {JSONDecoder_raw_decode(cleaned, index)} |->
            IF ~decoded.ok THEN QueryAgent_decode_scan(cleaned, index + 1, results)
            ELSE QueryAgent_decode_scan(cleaned, decoded.end,
                     results \o DictsOf(decoded.value))])

\* QueryAgent._decode_json_strings
QueryAgent_decode_json_strings(text) ==
    With([cleaned \in {str_strip(text)} |->
        IF cleaned = <<>> THEN <<>>
        ELSE QueryAgent_decode_scan(
                 IF StartsWith(cleaned, Fence)
                 THEN StripClosingFence(StripOpeningFence(cleaned))
                 ELSE cleaned,
                 1, <<>>)])

\* an attribute the object does not have
Absent == [t |-> "absent"]

\* an object whose attribute text is the given value (Absent for none)
TextObject(text) == [t |-> "object", text |-> text]

\* an item of response.output with the given content attribute
OutputItem(content) == [t |-> "object", content |-> content]

\* a response object with the three attributes the extractor reads
Response(output, output_text, text) ==
    [t |-> "object", output |-> output, output_text |-> output_text, text |-> text]

\* QueryAgent._remember_text folded over candidate texts: state carries the
\* seen set and the texts kept so far
RECURSIVE QueryAgent_remember_texts(_, _)
QueryAgent_remember_texts(state, candidates) ==
    IF candidates = <<>> THEN state
    ELSE With([text \in {Head(candidates)} |->
            IF text.t # "str" \/ str_strip(text.s) = <<>> \/ str_strip(text.s) \in state.seen
            THEN QueryAgent_remember_texts(state, Tail(candidates))
            ELSE QueryAgent_remember_texts(
                     [seen |-> state.seen \cup {str_strip(text.s)},
                      texts |-> Append(state.texts, str_strip(text.s))],
                     Tail(candidates))])

\* getattr(block, "text", "")
BlockText(block) ==
    IF block.t = "object" /\ "text" \in DOMAIN block /\ block.text # Absent
    THEN block.text ELSE StrV(<<>>)

\* the candidate texts one item of response.output holds
ItemTexts(item) ==
    With([content \in {IF item.t = "object" /\ "content" \in DOMAIN item /\ item.content # Absent
                       THEN item.content ELSE PyNone} |->
        IF content.t = "list" THEN [i \in DOMAIN content.items |-> BlockText(content.items[i])]
        ELSE IF content.t = "dict"
        THEN <<IF Truthy(DictGet(content, <<"t","e","x","t">>)) THEN DictGet(content, <<"t","e","x","t">>)
               ELSE DictGet(content, <<"o","u","t","p","u","t","_","t","e","x","t">>)>>
        ELSE IF content.t # "none" THEN <<BlockText(content)>>
        ELSE <<>>])

\* the candidate texts of getattr(response, attr, None)
AggregateTexts(raw) ==
    IF raw.t = "str" THEN <<raw>>
    ELSE IF raw.t = "list" THEN raw.items
    ELSE <<>>

RECURSIVE FlattenSeqs(_)
FlattenSeqs(seqs) == IF seqs = <<>> THEN <<>> ELSE Head(seqs) \o FlattenSeqs(Tail(seqs))

\* QueryAgent._extract_response_text_blocks: the texts, or the TypeError of
\* iterating an output attribute that is no iterable
QueryAgent_extract_response_text_blocks(response) ==
    With([output \in {IF response.output = Absent THEN ListV(<<>>) ELSE response.output} |->
        IF output.t # "list"
        THEN [raised |-> [type |-> "TypeError", message |-> "object is not iterable"],
              texts |-> <<>>]
        ELSE [raised |-> NoError,
              texts |-> QueryAgent_remember_texts(
                            [seen |-> {}, texts |-> <<>>],
                            FlattenSeqs([i \in DOMAIN output.items |-> ItemTexts(output.items[i])])
                              \o AggregateTexts(response.output_text)
                              \o AggregateTexts(response.text)).texts]])

\* QueryAgent._iter_json_payloads
QueryAgent_iter_json_payloads(response) ==
    With([blocks \in {QueryAgent_extract_response_text_blocks(response)} |->
        [raised |-> blocks.raised,
         payloads |-> FlattenSeqs([i \in DOMAIN blocks.texts |->
                          QueryAgent_decode_json_strings(blocks.texts[i])])]])

\* a piece of text and the JSON objects it embeds
Segment(text, objects) == [text |-> text, objects |-> objects]

SegmentPool ==
    { Segment(<<"A","n","s","w","e","r",":"," ">>, <<>>),
      Segment(<<"n","/","a">>, <<>>),
      Segment(<<"[","s","e","e"," ">>, <<>>),
      Segment(<<"{","\"","a","\"",":">>, <<>>),
      Segment(<<"[","1",","," ","2","]">>, <<>>),
      Segment(<<"{","}">>, <<DictV(<<>>)>>),
      Segment(<<"{","\"","a","\"",":","1","}">>, <<DictV(<< <<<<"a">>, IntV(1)>> >>)>>),
      Segment(<<"[","{","\"","b","\"",":","\"","x","\"","}",","," ","-","7",","," ","{","\"","a","\"",":","1","}","]">>,
              <<DictV(<< <<<<"b">>, StrV(<<"x">>)>> >>), DictV(<< <<<<"a">>, IntV(1)>> >>)>>),
      Segment(<<"{"," ","\"","a","\""," ",":"," ","n","u","l","l"," ",","," ","\"","b","\"",":","[","t","r","u","e","]","}">>,
              <<DictV(<< <<<<"a">>, PyNone>>, <<<<"b">>, ListV(<<BoolV(TRUE)>>)>> >>)>>) }

\* the longest run of segments in one text
MaxSegments == 2

\* the segments of a text, in order
SegmentLists == UNION {[1..n -> SegmentPool] : n \in 0..MaxSegments}

\* the text of the segments, bare, in a fence tagged json or in a bare fence
Fencings == {"bare", "json", "fence"}

TextOf(segments, fencing) ==
    With([body \in {FlattenSeqs([i \in DOMAIN segments |-> segments[i].text])} |->
        IF fencing = "json" THEN Fence \o <<"j","s","o","n">> \o <<"\n">> \o body \o <<"\n">> \o Fence
        ELSE IF fencing = "fence" THEN <<" ">> \o Fence \o <<"\n">> \o body \o Fence \o <<"\n">>
        ELSE body])

\* the shapes of response that carry the text
ResponseShapes ==
    {"block", "dict_text", "dict_output_text", "content_object", "output_text",
     "block_and_output_text", "output_text_list", "text", "output_none"}

\* a second text some responses carry
OtherText == <<"s","o"," ","{","\"","c","\"",":","2","}">>

ResponseOf(shape, text) ==
    CASE shape = "block" ->
            Response(ListV(<<OutputItem(ListV(<<TextObject(StrV(text))>>))>>), Absent, Absent)
      [] shape = "dict_text" ->
            Response(ListV(<<OutputItem(DictV(<< <<<<"t","e","x","t">>, StrV(text)>> >>))>>), Absent, Absent)
      [] shape = "dict_output_text" ->
            Response(ListV(<<OutputItem(DictV(<< <<<<"o","u","t","p","u","t","_","t","e","x","t">>, StrV(text)>> >>))>>),
                     Absent, Absent)
      [] shape = "content_object" ->
            Response(ListV(<<OutputItem(Absent), OutputItem(TextObject(StrV(text)))>>),
                     PyNone, Absent)
      [] shape = "output_text" -> Response(Absent, StrV(text), Absent)
      [] shape = "block_and_output_text" ->
            Response(ListV(<<OutputItem(ListV(<<TextObject(PyNone), TextObject(StrV(text))>>))>>),
                     StrV(<<" ">> \o text), Absent)
      [] shape = "output_text_list" ->
            Response(ListV(<<>>), ListV(<<StrV(text), PyNone, StrV(OtherText)>>), Absent)
      [] shape = "text" -> Response(Absent, Absent, StrV(text))
      [] shape = "output_none" -> Response(PyNone, StrV(text), Absent)

\* the responses that expose no usable text
TextlessResponses ==
    { Response(Absent, Absent, Absent),
      Response(ListV(<<OutputItem(PyNone), OutputItem(ListV(<<TextObject(StrV(<<" ">>))>>))>>),
               PyNone, Absent),
      Response(PyNone, Absent, Absent) }

\* the JSON objects embedded in the text the response of a shape carries
EmbeddedIn(shape, segments) ==
    FlattenSeqs([i \in DOMAIN segments |-> segments[i].objects])
      \o (IF shape = "output_text_list" THEN <<DictV(<< <<<<"c">>, IntV(2)>> >>)>> ELSE <<>>)

ExtractorInputs ==
    { [response |-> ResponseOf(shape, TextOf(segments, fencing)),
       embedded |-> EmbeddedIn(shape, segments)] :
          shape \in ResponseShapes, segments \in SegmentLists, fencing \in Fencings }
    \cup { [response |-> response, embedded |-> <<>>] : response \in TextlessResponses }

InitExtract ==
    /\ pc = "extract"
    /\ dependencies = AllPresent
    /\ update_agent = PyNone
    /\ scenario \in ExtractorInputs
    /\ dataset = <<>>
    /\ Untouched

\* QueryAgent._iter_json_payloads(response)
IterJsonPayloads ==
    /\ pc = "extract"
    /\ \E extracted \in {QueryAgent_iter_json_payloads(scenario.response)} :
            IF extracted.raised # NoError
            THEN Fail(extracted.raised) /\ UNCHANGED result
            ELSE /\ result' = ListV(extracted.payloads)
                 /\ pc' = "extracted"
                 /\ UNCHANGED raised
    /\ UNCHANGED <<dependencies, update_agent, scenario, dataset, agent, answer, outcome,
                   update_summary, schema_proposal, calls, events>>
    /\ UNCHANGED chat
    /\ UNCHANGED web

NextExtract == IterJsonPayloads

SpecExtract == InitExtract /\ [][NextExtract]_vars

\* C18: for any response object and any text content, the Text-Payload
\* Extractor returns the JSON objects embedded in the text (inside prose or
\* fenced blocks, arrays flattened into their dict elements, in left-to-right
\* order) and returns an empty list, never raising, when no valid JSON is
\* present or the response exposes no usable text.
C18_ExtractorRecoversEmbeddedObjects ==
    pc # "extract" =>
        /\ raised = NoError
        /\ result = ListV(scenario.embedded)

(***************************************************************************)
(* The observer: what the callers of the three agent calls see, for each   *)
(* thing the injected observer can do                                      *)
(***************************************************************************)
\* the collaborators of a run, with each thing the observers can do
ObservedDependencySets ==
    { [AllPresent EXCEPT !.gpt_client = g, !.query_logger = o, !.scraper_logger = o] :
          g \in BOOLEAN, o \in Observers }

InitObserved ==
    /\ pc = "start"
    /\ dependencies \in ObservedDependencySets
    /\ \E order \in Orders(UpdateAgent_normalized_fields(RunAllowedFields)) :
            update_agent = UpdateAgent_post_init(RunAllowedFields, dependencies.gpt_client, order)
    /\ scenario \in Scenarios
    /\ dataset \in Datasets
    /\ Untouched

SpecObserved == InitObserved /\ [][Next]_vars

\* the agent with another observer injected
WithObserver(self, observer) == [self EXCEPT !.logger = observer]

\* the rows and completions answer_question can be given in this run
AnswerInputs ==
    { [rows |-> dataset, order |-> order, selection |-> selection, extraction |-> extraction] :
          order \in RowKeyOrders(dataset),
          selection \in RepliesOf(dependencies.gpt_client, SelectionReplies),
          extraction \in RepliesOf(dependencies.gpt_client, ExtractionReplies) }

\* what answer_question gives its caller and asks of its collaborators
AnswerSeen(self, inputs) ==
    With([a \in {QueryAgent_answer_question(self, scenario.ticket_id, scenario.question,
                     scenario.record_id, inputs)} |->
        [raised |-> QueryAgent_log_event(self),
         self |-> WithObserver(a.self, "absent"),
         result |-> a.result,
         run |-> a.run, flag_missing |-> a.flag_missing, generate |-> a.generate]])

\* the rows and completions incorporate_scraper_findings can be given
FollowUpInputs ==
    { [rows |-> dataset, order |-> order, follow_up |-> follow_up] :
          order \in RowKeyOrders(dataset),
          follow_up \in RepliesOf(dependencies.gpt_client, FollowUpReplies) }

\* what incorporate_scraper_findings gives its caller and asks of its
\* collaborators
FollowUpSeen(self, inputs) ==
    With([inc \in {QueryAgent_incorporate_scraper_findings(
                       self, scenario.ticket_id, scenario.question, scenario.record_id,
                       outcome.findings,
                       IF Get(result, "record_context").t = "dict"
                       THEN Get(result, "record_context") ELSE PyNone,
                       inputs)} |->
        [raised |-> IF inc.events # <<>> THEN QueryAgent_log_event(self) ELSE NoError,
         self |-> WithObserver(inc.self, "absent"),
         result |-> inc.result,
         run |-> inc.run, generate |-> inc.generate]])

\* the plan execute_plan draws from a completion
PlanSeen(scraper, reply) ==
    ScraperAgent_plan_research(scraper, scenario.question, augment_missing_facts(result),
                               scenario.ticket_id, reply)

\* what execute_plan gives its caller and asks of its collaborators
ScrapeSeen(scraper, reply, searches) ==
    With([run \in {ScraperAgent_execute_planned(scraper, scenario.ticket_id,
                       scenario.question, augment_missing_facts(result),
                       PlanSeen(scraper, reply), searches)} |->
        [raised |-> IF run.events # <<>>
                    THEN ScraperAgent_log_event(scraper, scenario.ticket_id) ELSE NoError,
         search_raised |-> run.raised,
         outcome |-> run.outcome,
         search |-> run.search, bulk_append |-> run.bulk_append, generate |-> run.generate]])

\* C19: for the same inputs and the same collaborator responses,
\* answer_question, incorporate_scraper_findings and execute_plan return the
\* same result and make the same row-store, sink, search and completion calls
\* whether the observer succeeds, raises on every event, or is absent.
C19_ObserverDoesNotAffectTheCalls ==
    /\ pc = "answer" =>
          \A inputs \in AnswerInputs, observer \in Observers :
              AnswerSeen(WithObserver(agent, observer), inputs) = AnswerSeen(agent, inputs)
    /\ pc = "follow_up" =>
          \A inputs \in FollowUpInputs, observer \in Observers :
              FollowUpSeen(WithObserver(agent, observer), inputs) = FollowUpSeen(agent, inputs)
    /\ pc = "scrape" /\ dependencies.scraper_agent =>
          \A reply \in RepliesOf(dependencies.gpt_client, PlanReplies), observer \in Observers :
              /\ PlanSeen(WithObserver(ScraperAgent_new(dependencies), observer), reply).tasks
                    = PlanSeen(ScraperAgent_new(dependencies), reply).tasks
              /\ \A searches \in SearchRuns(Len(PlanSeen(ScraperAgent_new(dependencies), reply).tasks)) :
                    ScrapeSeen(WithObserver(ScraperAgent_new(dependencies), observer), reply, searches)
                        = ScrapeSeen(ScraperAgent_new(dependencies), reply, searches)

\* a whole run with a raising observer on both agents: the question was
\* answered after the scraper's findings were incorporated
C19_Witness ==
    /\ pc = "done" /\ raised = NoError
    /\ dependencies.query_logger = "raises" /\ dependencies.scraper_logger = "raises"
    /\ events.query # <<>> /\ events.scraper # <<>>
    /\ FollowedUp /\ FollowUp # PyNone
    /\ Len(calls.search) >= 1 /\ Len(calls.generate) >= 2

\* the names of the events answer_question handed to its observer, while no
\* later call of the agent has added its own
AnswerEvents == [i \in DOMAIN events.query |-> events.query[i].event]

\* answer_question has returned and incorporate_scraper_findings has not run
JustAnswered == answer # PyNone /\ calls.incorporate = <<>>

\* the places of an event name among the events of the call
PlacesOf(name) == {i \in DOMAIN AnswerEvents : AnswerEvents[i] = name}

\* C20: in every answer_question call, whatever its outcome, the first
\* observer event is question_received, exactly one question_resolved event is
\* emitted and it is the last event of the call, and sql_executed precedes
\* record_fetch_result; when the status is not answered, missing_data_flagged
\* is emitted before question_resolved.
C20_AnswerEventsAreOrdered ==
    JustAnswered =>
        /\ AnswerEvents # <<>>
        /\ AnswerEvents[1] = "question_received"
        /\ PlacesOf("question_resolved") = {Len(AnswerEvents)}
        /\ PlacesOf("sql_executed") # {} /\ PlacesOf("record_fetch_result") # {}
        /\ \A fetched \in PlacesOf("record_fetch_result") :
              \E executed \in PlacesOf("sql_executed") : executed < fetched
        /\ answer.status # "answered" =>
              \E flagged \in PlacesOf("missing_data_flagged") : flagged < Len(AnswerEvents)
        /\ answer.status \in {"answered", "record_not_found", "unknown_question",
                              "missing_values"}

\* a call that found the record and its columns but no value: the completion
\* client was asked and the missing data was flagged
C20_Witness ==
    /\ JustAnswered
    /\ answer.status = "missing_values"
    /\ PlacesOf("columns_inferred") # {}
    /\ PlacesOf("missing_data_flagged") # {}
    /\ Len(calls.flag_missing) = 1

(***************************************************************************)
(* ScraperAgent.plan_research called on its own                            *)
(***************************************************************************)
\* the longest list of candidate URLs handed to plan_research
MaxUrls == 2

UrlPool ==
    { <<"h","t","t","p","s",":","/","/","w","w","w",".","a","c","m","e",".","i","o","/","m","e","n","u">>, <<"h","t","t","p","s",":","/","/","W","W","W",".","A","C","M","E",".","I","O","/","a","b","o","u","t">>,
      <<"h","t","t","p","s",":","/","/","i","n","t","e","r","n","a","l",".","e","x","a","m","p","l","e",".","c","o","m","/","n","o","t","e","s">>, <<"f","a","c","e","b","o","o","k",".","c","o","m","/","a","c","m","e">>, <<" ">> }

UrlLists == UNION {[1..n -> UrlPool] : n \in 0..MaxUrls}

PlanQuestions == { <<"h","o","u","r","s","?">>, <<"{","c","o","m","p","a","n","y","}"," ","h","o","u","r","s","?">>, <<>> }

PlanMissingColumns == { <<>>, <<<<"W","E","B","S","I","T","E">>>>, <<<<"O","P","E","N","_","H","O","U","R","S">>, <<"W","E","B","S","I","T","E">>>> }

PlanContexts == { PyNone, DictV(<< <<<<"B","U","S","I","N","E","S","S","_","N","A","M","E">>, StrV(<<"A","c","m","e">>)>> >>) }

\* what the completion client answers to the planning prompt: it raises, or
\* its text blocks hold these lines
PlanningReplies ==
    PlanReplies
    \cup { Replies(<<<<"n","o"," ","d","i","r","e","c","t","i","v","e"," ","h","e","r","e">>>>),
           Replies(<<<<"p","r","e","s","s"," ","|"," ","{","c","o","m","p","a","n","y","}"," ","p","r","e","s","s"," ","|"," ","N","e","w","s">>, <<" ","|"," ","a","c","m","e"," ","r","e","v","i","e","w","s">>>>) }

\* missing_facts with the keys that are given
MissingFacts(missing_columns, candidate_urls, record_context) ==
    [k \in (IF missing_columns # <<>> THEN {"missing_columns"} ELSE {})
            \cup (IF candidate_urls # <<>> THEN {"candidate_urls"} ELSE {})
            \cup (IF record_context # PyNone THEN {"record_context"} ELSE {}) |->
        CASE k = "missing_columns" -> missing_columns
          [] k = "candidate_urls" -> candidate_urls
          [] k = "record_context" -> record_context]

InitPlan ==
    /\ pc = "plan"
    /\ dependencies \in { [AllPresent EXCEPT !.gpt_client = g] : g \in BOOLEAN }
    /\ update_agent = PyNone
    /\ \E question \in PlanQuestions, missing_columns \in PlanMissingColumns,
          candidate_urls \in UrlLists, record_context \in PlanContexts,
          completion \in RepliesOf(dependencies.gpt_client, PlanningReplies) :
            scenario = [ticket_id |-> TicketId, question |-> question,
                        missing_facts |-> MissingFacts(missing_columns, candidate_urls,
                                                       record_context),
                        completion |-> completion]
    /\ dataset = <<>>
    /\ Untouched

\* scraper_agent.plan_research(question, missing_facts, ticket_id=ticket_id)
PlanResearch ==
    /\ pc = "plan"
    /\ \E plan \in {ScraperAgent_plan_research(ScraperAgent_new(dependencies),
                        scenario.question, scenario.missing_facts, scenario.ticket_id,
                        scenario.completion)} :
            /\ outcome' = [tasks |-> plan.tasks]
            /\ calls' = [calls EXCEPT
                           !.generate = @ \o (IF plan.generate = 1
                                              THEN <<"search_planning">> ELSE <<>>),
                           !.generate_raised = @ \o (IF plan.generate = 1
                                                        /\ scenario.completion.raises
                                                     THEN <<"search_planning">> ELSE <<>>)]
            /\ events' = [events EXCEPT !.scraper = @ \o plan.events]
    /\ pc' = "planned"
    /\ UNCHANGED <<dependencies, update_agent, scenario, dataset, agent, result, answer,
                   update_summary, schema_proposal, raised>>
    /\ UNCHANGED chat
    /\ UNCHANGED web

NextPlan == PlanResearch

SpecPlan == InitPlan /\ [][NextPlan]_vars

\* the candidate URLs and missing columns plan_research was given
PlanUrls == IF "candidate_urls" \in DOMAIN scenario.missing_facts
            THEN scenario.missing_facts.candidate_urls ELSE <<>>

PlanColumns == IF "missing_columns" \in DOMAIN scenario.missing_facts
               THEN scenario.missing_facts.missing_columns ELSE <<>>

\* the host of the i-th candidate URL
HostAt(i) == ScraperAgent_extract_host(PlanUrls[i])

\* the places of the candidate URLs whose host is named for the first time
\* and matches no keyword of the denylist
FirstHostPlaces ==
    {i \in DOMAIN PlanUrls :
        /\ HostAt(i) # <<>>
        /\ \A keyword \in IGNORED_HOST_KEYWORDS : ~Contains(HostAt(i), keyword)
        /\ \A j \in 1..(i - 1) : HostAt(j) # HostAt(i)}

\* the k-th smallest member of a set of numbers
RECURSIVE KthOf(_, _)
KthOf(S, k) ==
    With([least \in {CHOOSE x \in S : \A y \in S : x <= y} |->
        IF k = 1 THEN least ELSE KthOf(S \ {least}, k - 1)])

\* the usable directive lines the completion client proposed
ProposedLines ==
    IF ~dependencies.gpt_client \/ scenario.completion.raises THEN <<>>
    ELSE SelectSeq(ScraperAgent_plan_lines(scenario.completion.response),
                   LAMBDA raw : /\ Len(str_split(raw, "|")) >= 2
                                /\ str_strip(str_split(raw, "|")[2]) # <<>>)

\* how many tasks each part of the plan holds
GeneralCount == IF scenario.question # <<>> THEN 1 ELSE 0

HostCount == Cardinality(FirstHostPlaces)

FallbackCount == IF PlanColumns = <<>> /\ PlanUrls = <<>> THEN 1 ELSE 0

\* C21: plan_research returns its tasks in this order: the general search,
\* then one host-scoped task per distinct candidate-URL host in
\* first-occurrence order (hosts matching the denylist skipped, topic equal to
\* the host, query starting with site:<host>), then the LLM-proposed tasks,
\* then one task per missing column, or a single generic fallback task only
\* when there are neither missing columns nor candidate URLs.
C21_PlanOrder ==
    pc = "planned" =>
        /\ Len(outcome.tasks) = GeneralCount + HostCount + Len(ProposedLines)
                                   + Len(PlanColumns) + FallbackCount
        /\ GeneralCount = 1 => outcome.tasks[1].topic = <<"g","o","o","g","l","e">>
        /\ \A k \in 1..HostCount :
              /\ outcome.tasks[GeneralCount + k].topic = HostAt(KthOf(FirstHostPlaces, k))
              /\ StartsWith(outcome.tasks[GeneralCount + k].query,
                            <<"s","i","t","e",":">> \o HostAt(KthOf(FirstHostPlaces, k)))
        /\ \A k \in DOMAIN ProposedLines :
              With([topic \in {str_strip(str_split(ProposedLines[k], "|")[1])} |->
                  outcome.tasks[GeneralCount + HostCount + k].topic
                      = IF topic # <<>> THEN topic ELSE <<"g","e","n","e","r","a","l">>])
        /\ \A k \in DOMAIN PlanColumns :
              outcome.tasks[GeneralCount + HostCount + Len(ProposedLines) + k].topic
                  = PlanColumns[k]
        /\ FallbackCount = 1 =>
              /\ outcome.tasks[Len(outcome.tasks)].topic = <<"g","e","n","e","r","a","l">>
              /\ StartsWith(outcome.tasks[Len(outcome.tasks)].description,
                            <<"G","e","n","e","r","a","l"," ","c","o","n","t","e","x","t"," ","g","a","t","h","e","r","i","n","g">>)
        /\ FallbackCount = 0 =>
              \A k \in DOMAIN outcome.tasks :
                  ~StartsWith(outcome.tasks[k].description, <<"G","e","n","e","r","a","l"," ","c","o","n","t","e","x","t"," ","g","a","t","h","e","r","i","n","g">>)

\* a plan with every part: the general search, one host task for two URLs
\* of which one is skipped, two proposed tasks and two columns
C21_Witness ==
    /\ pc = "planned"
    /\ GeneralCount = 1 /\ HostCount = 1 /\ Len(PlanUrls) = 2
    /\ \E i \in DOMAIN PlanUrls : HostAt(i) # <<>> /\ i \notin FirstHostPlaces
    /\ Len(ProposedLines) = 2 /\ Len(PlanColumns) = 2
    /\ Len(outcome.tasks) = 6

(***************************************************************************)
(* ScraperAgent.execute_plan called on its own                             *)
(***************************************************************************)
\* the most results the search client returns for one task here
MaxHits == 2

HitOutcomes ==
    { [raises |-> TRUE, results |-> <<>>] }
    \cup { [raises |-> FALSE, results |-> Take(SearchResults, n)] : n \in 0..MaxHits }

\* the search client's behaviour over n tasks: one outcome for the first
\* search and one for every later search
HitRuns(n) ==
    {s \in [1..n -> HitOutcomes] :
        /\ \A i \in 2..n : \A j \in 2..n : s[i] = s[j]
        /\ \A i \in 2..n : s[1].raises => s[i] = s[1]}

InitScrape ==
    /\ pc = "scrape_alone"
    /\ dependencies \in { [AllPresent EXCEPT !.gpt_client = g] : g \in BOOLEAN }
    /\ update_agent = PyNone
    /\ \E question \in { <<"h","o","u","r","s","?">>, <<>> }, missing_columns \in PlanMissingColumns,
          candidate_urls \in { <<>>, <<<<"h","t","t","p","s",":","/","/","w","w","w",".","a","c","m","e",".","i","o","/","m","e","n","u">>>> },
          record_context \in PlanContexts,
          completion \in RepliesOf(dependencies.gpt_client, PlanReplies) :
            scenario = [ticket_id |-> TicketId, question |-> question,
                        missing_facts |-> MissingFacts(missing_columns, candidate_urls,
                                                       record_context),
                        completion |-> completion]
    /\ dataset = <<>>
    /\ Untouched

\* scraper_agent.execute_plan(ticket_id, question, missing_facts)
ExecutePlanAlone ==
    /\ pc = "scrape_alone"
    /\ \E scraper \in {ScraperAgent_new(dependencies)} :
       \E plan \in {ScraperAgent_plan_research(scraper, scenario.question,
                        scenario.missing_facts, scenario.ticket_id, scenario.completion)} :
       \E searches \in HitRuns(Len(plan.tasks)) :
       \E run \in {ScraperAgent_execute_planned(scraper, scenario.ticket_id,
                       scenario.question, scenario.missing_facts, plan, searches)} :
            /\ calls' = [calls EXCEPT
                           !.execute_plan = Append(@, [ticket_id |-> scenario.ticket_id,
                                                       question |-> scenario.question,
                                                       missing_facts |-> scenario.missing_facts]),
                           !.search = @ \o run.search,
                           !.bulk_append = @ \o run.bulk_append,
                           !.generate = @ \o (IF run.generate = 1
                                              THEN <<"search_planning">> ELSE <<>>),
                           !.generate_raised = @ \o (IF run.generate = 1
                                                        /\ scenario.completion.raises
                                                     THEN <<"search_planning">> ELSE <<>>)]
            /\ events' = [events EXCEPT !.scraper = @ \o run.events]
            /\ IF run.raised
               THEN /\ Fail([type |-> "SearchError", message |-> "search"])
                    /\ UNCHANGED outcome
               ELSE /\ outcome' = run.outcome
                    /\ pc' = "scraped"
                    /\ UNCHANGED raised
    /\ UNCHANGED <<dependencies, update_agent, scenario, dataset, agent, result, answer,
                   update_summary, schema_proposal>>
    /\ UNCHANGED chat
    /\ UNCHANGED web

NextScrape == ExecutePlanAlone

SpecScrape == InitScrape /\ [][NextScrape]_vars

\* execute_plan has returned its outcome
Scraped == Len(calls.execute_plan) = 1 /\ outcome # PyNone

\* the findings that precede those of the i-th successful search
RECURSIVE FindingsBefore(_)
FindingsBefore(i) ==
    IF i <= 1 THEN 0
    ELSE FindingsBefore(i - 1) + outcome.successful_searches[i - 1].result_count

\* the successful searches from the i-th on are, in order, among the tasks
\* from the j-th on
RECURSIVE AmongTasks(_, _)
AmongTasks(i, j) ==
    IF i > Len(outcome.successful_searches) THEN TRUE
    ELSE IF j > Len(outcome.tasks) THEN FALSE
    ELSE IF /\ outcome.tasks[j].topic = outcome.successful_searches[i].topic
            /\ outcome.tasks[j].query = outcome.successful_searches[i].query
    THEN AmongTasks(i + 1, j + 1)
    ELSE AmongTasks(i, j + 1)

\* the names of the events handed to the scraper's observer
ScraperEvents == [i \in DOMAIN events.scraper |-> events.scraper[i].event]

\* C22: execute_plan calls the search client once per planned task in plan
\* order, emits the findings ordered by task and then by rank (rank counting
\* from 0 within each task), and hands exactly that list to the evidence sink
\* in a single bulk_append, which happens if and only if at least one finding
\* exists; with zero findings it makes no sink call, logs scrape_no_findings
\* and returns normally with no successful searches and no backfill prompt.
C22_ExecutePlanSearchesAndPersists ==
    Scraped =>
        /\ Len(calls.search) = Len(outcome.tasks)
        /\ \A i \in DOMAIN outcome.tasks : calls.search[i].query = outcome.tasks[i].query
        /\ AmongTasks(1, 1)
        /\ Len(outcome.findings) = FindingsBefore(Len(outcome.successful_searches) + 1)
        /\ \A i \in DOMAIN outcome.successful_searches :
              /\ outcome.successful_searches[i].result_count >= 1
              /\ \A rank \in 0..(outcome.successful_searches[i].result_count - 1) :
                    With([finding \in {outcome.findings[FindingsBefore(i) + rank + 1]} |->
                        /\ finding.rank = rank
                        /\ finding.topic = outcome.successful_searches[i].topic
                        /\ finding.query = outcome.successful_searches[i].query
                        /\ finding.ticket_id = scenario.ticket_id])
        /\ outcome.findings # <<>> =>
              calls.bulk_append = <<[ticket_id |-> scenario.ticket_id,
                                     findings |-> outcome.findings]>>
        /\ outcome.findings = <<>> =>
              /\ calls.bulk_append = <<>>
              /\ \E i \in DOMAIN ScraperEvents : ScraperEvents[i] = "scrape_no_findings"
              /\ outcome.successful_searches = <<>>
              /\ outcome.backfill_prompt = PyNone
        /\ outcome.findings # <<>> =>
              \A i \in DOMAIN ScraperEvents : ScraperEvents[i] # "scrape_no_findings"

\* several tasks of which the first found one result and the later ones two
\* results each: five or more findings persisted at once
C22_Witness ==
    /\ Scraped
    /\ Len(outcome.tasks) >= 3
    /\ Len(outcome.successful_searches) = Len(outcome.tasks)
    /\ outcome.successful_searches[1].result_count = 1
    /\ outcome.successful_searches[2].result_count = 2
    /\ Len(outcome.findings) >= 5
    /\ Len(calls.bulk_append) = 1

\* a plan whose searches all came back empty
NothingFound ==
    /\ Scraped /\ Len(calls.search) >= 2 /\ outcome.findings = <<>>

(***************************************************************************)
(* Properties of SchemaAgent.propose_change called on its own              *)
(***************************************************************************)
\* the call returned
Designed == pc = "designed" /\ Len(calls.propose_change) = 1

\* what the evidence summary carries under a key, as a sequence
Carried(evidence_summary, key) ==
    IF key \notin DOMAIN evidence_summary THEN <<>>
    ELSE IF key = "unknown_fields" THEN evidence_summary[key].items
    ELSE evidence_summary[key]

\* neither escalated unmatched facts nor unknown fields in the summary
NothingEscalated(evidence_summary) ==
    /\ Carried(evidence_summary, "unknown_fields") = <<>>
    /\ Carried(evidence_summary, "unmatched_facts") = <<>>

\* the add-column-if-not-exists statement of a proposed column
AddColumnStatement(column) ==
    <<"A","L","T","E","R"," ","T","A","B","L","E"," ">> \o <<"d","a","t","a","s","e","t">> \o <<" ","A","D","D"," ","C","O","L","U","M","N"," ","I","F"," ","N","O","T"," ","E","X","I","S","T","S"," ","\"">>
        \o column.name \o <<"\""," ">> \o column.data_type \o <<";">>

\* the empty proposal, and the migration writer left alone
NoOpProposal ==
    /\ schema_proposal.columns = <<>>
    /\ schema_proposal.migration_statements = <<>>
    /\ schema_proposal.migration_path = PyNone
    /\ calls.write_migration = <<>>

\* one call of the migration writer with one statement per proposed column
MigrationWritten ==
    /\ Len(calls.write_migration) = 1
    /\ schema_proposal.columns # <<>>
    /\ calls.write_migration[1].statements =
          [i \in DOMAIN schema_proposal.columns |->
              AddColumnStatement(schema_proposal.columns[i])]
    /\ schema_proposal.migration_statements = calls.write_migration[1].statements

\* the record writer and the row store are never called
StorageUntouched ==
    /\ calls.update_record = <<>>
    /\ calls.run = <<>>
    /\ calls.load = <<>>

\* C23: propose_change given an evidence summary with neither escalated
\* unmatched facts nor unknown fields returns empty columns, no statements and
\* a null migration path without calling the migration writer; given any other
\* summary it calls write_migration exactly once with one
\* add-column-if-not-exists statement per proposed column in proposal order;
\* in both cases the record writer and the row store are not called
C23_ProposeChangeWritesOneMigration ==
    Designed =>
        /\ NothingEscalated(scenario.evidence_summary) => NoOpProposal
        /\ ~NothingEscalated(scenario.evidence_summary) => MigrationWritten
        /\ StorageUntouched

\* the same with the summary judged by its unknown fields alone, which is
\* what the code reads
ProposeChangeReadsUnknownFields ==
    Designed =>
        /\ Carried(scenario.evidence_summary, "unknown_fields") = <<>> => NoOpProposal
        /\ Carried(scenario.evidence_summary, "unknown_fields") # <<>> => MigrationWritten
        /\ StorageUntouched

\* an escalation of unmatched facts answered with the empty proposal
EscalationIgnored ==
    /\ Designed
    /\ Carried(scenario.evidence_summary, "unmatched_facts") # <<>>
    /\ NoOpProposal

(***************************************************************************)
(* SchemaAgent.propose_change called twice with the same arguments         *)
(***************************************************************************)
\* the second call of propose_change on an agent that skips the fields it
\* proposed before
ProposeChangeAgain_skipping_proposed ==
    /\ pc = "designed"
    /\ \E reply \in RepliesOf(dependencies.gpt_client, SchemaReplies) :
       \E proposed \in {SchemaAgent_propose_change(SchemaAgent_new(dependencies),
                            scenario.ticket_id, EmptyDict, reply, MigrationPath)} :
            /\ result' = schema_proposal
            /\ schema_proposal' = proposed.proposal
            /\ calls' = [calls EXCEPT
                           !.propose_change = Append(@, scenario.evidence_summary),
                           !.write_migration = @ \o proposed.write_migration]
            /\ pc' = "designed_again"
    /\ UNCHANGED <<dependencies, update_agent, scenario, dataset, agent, answer,
                   outcome, update_summary, events, raised>>
    /\ UNCHANGED chat
    /\ UNCHANGED web

\* first = propose_change(ticket_id, evidence_summary) has returned; the caller
\* keeps it (in result) and calls propose_change(ticket_id, evidence_summary)
\* again on the same agent, which holds no state between calls
ProposeChangeAgain ==
    /\ pc = "designed"
    /\ \E reply \in RepliesOf(dependencies.gpt_client, SchemaReplies) :
       \E proposed \in {SchemaAgent_propose_change(SchemaAgent_new(dependencies),
                            scenario.ticket_id, scenario.evidence_summary, reply,
                            MigrationPath)} :
            /\ result' = schema_proposal
            /\ schema_proposal' = proposed.proposal
            /\ calls' = [calls EXCEPT
                           !.propose_change = Append(@, scenario.evidence_summary),
                           !.write_migration = @ \o proposed.write_migration,
                           !.generate = @ \o (IF proposed.generate = 1
                                              THEN <<"schema_proposal">> ELSE <<>>),
                           !.generate_raised = @ \o (IF proposed.generate = 1 /\ reply.raises
                                                     THEN <<"schema_proposal">> ELSE <<>>)]
            /\ pc' = "designed_again"
    /\ UNCHANGED <<dependencies, update_agent, scenario, dataset, agent, answer,
                   outcome, update_summary, events, raised>>
    /\ UNCHANGED chat
    /\ UNCHANGED web

NextSchemaTwice ==
    \/ ProposeChangeAlone
    \/ ProposeChangeAgain

SpecSchemaTwice == InitSchema /\ [][NextSchemaTwice]_vars

\* both calls returned
DesignedTwice == pc = "designed_again" /\ Len(calls.propose_change) = 2

RepeatedWithClientDiffers ==
    /\ DesignedTwice /\ dependencies.gpt_client
    /\ schema_proposal.columns # result.columns

(***************************************************************************)
(* The chat session: ChatCLI.start over run_scenario, with the chat        *)
(* observers wrapped around the dependencies                               *)
(***************************************************************************)
\* the most lines the user types before the input ends
MaxInputs == 2

\* session_id_factory()
SessionId == <<"S","E","S","S","I","O","N">>

\* _exit_commands
exit_commands == { <<"/","e","x","i","t">>, <<"e","x","i","t">>, <<"q","u","i","t">>, <<":","q">> }

\* what the user types at the prompt
InputPool == { <<"n","a","m","e","?">>, <<" ">>, <<"/","e","x","i","t">>, <<"/","r","e","c","o","r","d"," ","r","2">>, <<"/","r","e","c","o","r","d">> }

RECURSIVE InputLists(_)
InputLists(n) ==
    IF n = 0 THEN {<<>>}
    ELSE InputLists(n - 1)
         \cup {Append(inputs, typed) :
                    inputs \in {l \in InputLists(n - 1) : Len(l) = n - 1},
                    typed \in InputPool}

\* f"{counter:03d}"
Pad3(counter) ==
    LET digits == NatToStr(counter)
    IN IF Len(digits) >= 3 THEN digits
       ELSE [i \in 1..(3 - Len(digits)) |-> "0"] \o digits

\* f"{session_id}-Q{counter:03d}"
ConversationTicket(session_id, counter) == session_id \o <<"-","Q">> \o Pad3(counter)

\* command.split(maxsplit=1): the first word and the rest of the line
RECURSIVE FirstWordEnd(_, _)
FirstWordEnd(s, i) ==
    IF i > Len(s) \/ s[i] = " " THEN i - 1 ELSE FirstWordEnd(s, i + 1)

SplitOnce(command) ==
    LET stripped == str_strip(command)
        last == FirstWordEnd(stripped, 1)
        rest == str_strip(SubSeq(stripped, last + 1, Len(stripped)))
    IN IF stripped = <<>> THEN <<>>
       ELSE IF rest = <<>> THEN <<SubSeq(stripped, 1, last)>>
       ELSE <<SubSeq(stripped, 1, last), rest>>

\* the lines the session prints, each kept with what it is made of
BannerLine == [line |-> "banner"]

EndedLine == [line |-> "ended"]

StatusLine(ticket_id, status) == [line |-> "status", ticket_id |-> ticket_id, status |-> status]

ErrorLine(error) == [line |-> "error", error |-> error]

RecordSetLine(record) == [line |-> "record_set", record |-> record]

RecordUsageLine == [line |-> "record_usage"]

\* ChatCLI._handle_record_command: the active record and the line printed
ChatCLI_handle_record_command(command, current) ==
    LET parts == SplitOnce(command)
    IN IF Len(parts) = 2 /\ str_strip(parts[2]) # <<>>
       THEN [record |-> str_strip(parts[2]), line |-> RecordSetLine(str_strip(parts[2]))]
       ELSE [record |-> current, line |-> RecordUsageLine]

\* ChatCLI._render_response: the status line, the sections printed from the
\* result (kept as the result they are read from) and the closing blank line
ChatCLI_render_response(conversation_ticket, current) ==
    << StatusLine(conversation_ticket,
                  IF "status" \in DOMAIN current THEN current.status ELSE "unknown"),
       [line |-> "sections", result |-> current],
       [line |-> "blank"] >>

\* the keyword-only parameters of ChatUpdateAgent.apply_enrichment
ChatUpdateAgent_apply_enrichment_parameters == {"ticket_id", "record_id", "enriched_fields"}

\* the keywords run_scenario calls update_agent.apply_enrichment with
RunScenario_apply_enrichment_keywords == {"ticket_id", "record_id", "facts"}

\* the keyword-only parameters of UpdateAgent.apply_enrichment, which the
\* keywords of run_scenario match
UpdateAgent_apply_enrichment_parameters == {"ticket_id", "record_id", "facts"}

TypeError(message) == [type |-> "TypeError", message |-> message]

\* the binding of a call's keywords to keyword-only parameters without
\* defaults: the TypeError Python raises before the body runs, or NoError
BindKeywords(parameters, keywords) ==
    IF keywords \ parameters # {}
    THEN TypeError("got an unexpected keyword argument")
    ELSE IF parameters \ keywords # {}
    THEN TypeError("missing required keyword-only argument")
    ELSE NoError

\* the dependencies and datasets of a chat session
ChatDependencySets ==
    { [AllPresent EXCEPT !.gpt_client = g, !.query_logger = l, !.scraper_logger = l] :
            g \in BOOLEAN, l \in {"absent", "succeeds"} }

InitChat ==
    /\ pc = "chat_start"
    /\ dependencies \in ChatDependencySets
    /\ \E order \in Orders(UpdateAgent_normalized_fields(RunAllowedFields)) :
            update_agent = UpdateAgent_post_init(RunAllowedFields, dependencies.gpt_client, order)
    /\ scenario = PyNone
    /\ dataset \in Datasets
    /\ agent = PyNone /\ result = PyNone /\ answer = PyNone /\ outcome = PyNone
    /\ update_summary = PyNone /\ schema_proposal = PyNone
    /\ calls = NoCalls
    /\ events = [query |-> <<>>, scraper |-> <<>>]
    /\ raised = NoError
    /\ web = NoWeb
    /\ \E inputs \in InputLists(MaxInputs) :
            chat = [session_id |-> SessionId, record |-> RecordId, counter |-> 0,
                    inputs |-> inputs, outputs |-> <<>>, observers_attached |-> FALSE]

\* ChatCLI.start up to the loop: _attach_observers wraps the two observers,
\* the update agent and the schema agent, the banner is printed, counter = 1
ChatStart ==
    /\ pc = "chat_start"
    /\ dependencies' = [dependencies EXCEPT !.query_logger = "succeeds",
                                            !.scraper_logger = "succeeds"]
    /\ chat' = [chat EXCEPT !.observers_attached = TRUE,
                            !.outputs = Append(@, BannerLine),
                            !.counter = 1]
    /\ pc' = "chat_prompt"
    /\ UNCHANGED <<update_agent, scenario, dataset, agent, result, answer, outcome,
                   update_summary, schema_proposal, calls, events, raised>>
    /\ UNCHANGED web

\* one turn of the loop of ChatCLI.start up to the call of run_scenario
ChatInput ==
    /\ pc = "chat_prompt"
    /\ IF chat.inputs = <<>>
       THEN /\ chat' = [chat EXCEPT !.outputs = Append(@, EndedLine)]
            /\ pc' = "chat_ended"
            /\ UNCHANGED <<scenario, agent, result, answer, outcome, update_summary,
                           schema_proposal>>
       ELSE \E question \in {str_strip(Head(chat.inputs))} :
            IF question = <<>>
            THEN /\ chat' = [chat EXCEPT !.inputs = Tail(@)]
                 /\ pc' = "chat_prompt"
                 /\ UNCHANGED <<scenario, agent, result, answer, outcome, update_summary,
                                schema_proposal>>
            ELSE IF str_lower(question) \in exit_commands
            THEN /\ chat' = [chat EXCEPT !.inputs = Tail(@),
                                         !.outputs = Append(@, EndedLine)]
                 /\ pc' = "chat_ended"
                 /\ UNCHANGED <<scenario, agent, result, answer, outcome, update_summary,
                                schema_proposal>>
            ELSE IF StartsWith(question, <<"/","r","e","c","o","r","d">>)
            THEN \E handled \in {ChatCLI_handle_record_command(question, chat.record)} :
                 /\ chat' = [chat EXCEPT !.inputs = Tail(@),
                                         !.record = handled.record,
                                         !.outputs = Append(@, handled.line)]
                 /\ pc' = "chat_prompt"
                 /\ UNCHANGED <<scenario, agent, result, answer, outcome, update_summary,
                                schema_proposal>>
            ELSE /\ chat' = [chat EXCEPT !.inputs = Tail(@)]
                 /\ scenario' = [ticket_id |-> ConversationTicket(chat.session_id, chat.counter),
                                 question |-> question,
                                 record_id |-> chat.record]
                 /\ agent' = PyNone /\ result' = PyNone /\ answer' = PyNone
                 /\ outcome' = PyNone /\ update_summary' = PyNone
                 /\ schema_proposal' = PyNone
                 /\ pc' = "start"
    /\ UNCHANGED <<dependencies, update_agent, dataset, calls, events, raised>>
    /\ UNCHANGED web

\* run_scenario from the enrichment payload to its return, with the update
\* agent and the schema agent the chat session wrapped: the call
\* dependencies.update_agent.apply_enrichment(ticket_id=, record_id=, facts=)
\* binds its keywords to the parameters of ChatUpdateAgent.apply_enrichment
ChatApplyEnrichment ==
    /\ pc = "enrich"
    /\ \E enrichment_payload \in {Runner_resolve_enrichment_payload(result, scenario)},
          bound \in {BindKeywords(ChatUpdateAgent_apply_enrichment_parameters,
                                  RunScenario_apply_enrichment_keywords)} :
          IF ~Truthy(enrichment_payload)
          THEN /\ pc' = "done"
               /\ UNCHANGED <<result, update_summary, schema_proposal, calls, raised, chat>>
          ELSE IF bound # NoError
          THEN /\ Fail(bound)
               /\ UNCHANGED <<result, update_summary, schema_proposal, calls, chat>>
          ELSE \E reply \in RepliesOf(dependencies.gpt_client, ReasoningReplies),
                  schema_reply \in RepliesOf(dependencies.gpt_client, SchemaReplies) :
               \E applied \in {UpdateAgent_apply_enrichment(update_agent,
                                    scenario.ticket_id, scenario.record_id,
                                    enrichment_payload, reply)} :
               \E proposed \in {IF "escalated" \in DOMAIN applied.summary
                                THEN SchemaAgent_propose_change(SchemaAgent_new(dependencies),
                                        scenario.ticket_id, applied.summary.escalated,
                                        schema_reply, MigrationPath)
                                ELSE [proposal |-> PyNone, write_migration |-> <<>>,
                                      generate |-> 0]} :
                    /\ update_summary' = applied.summary
                    /\ schema_proposal' = proposed.proposal
                    /\ result' = PutIf(proposed.proposal # PyNone,
                                       Put(result, "update", applied.summary),
                                       "schema_proposal", proposed.proposal)
                    /\ calls' = [calls EXCEPT
                                   !.apply_enrichment = Append(@, enrichment_payload),
                                   !.update_record = @ \o applied.update_record,
                                   !.escalate = @ \o applied.escalate,
                                   !.propose_change = @ \o
                                        (IF "escalated" \in DOMAIN applied.summary
                                         THEN <<applied.summary.escalated>> ELSE <<>>),
                                   !.write_migration = @ \o proposed.write_migration]
                    /\ chat' = [chat EXCEPT !.outputs = @ \o
                                    << [line |-> "update_agent_called"],
                                       [line |-> "update_agent_finished",
                                        status |-> applied.summary.status] >>
                                    \o (IF "escalated" \in DOMAIN applied.summary
                                        THEN << [line |-> "schema_agent_called"],
                                                [line |-> "schema_agent_finished",
                                                 columns |-> proposed.proposal.columns] >>
                                        ELSE <<>>)]
                    /\ pc' = "done"
                    /\ UNCHANGED raised
    /\ UNCHANGED <<dependencies, update_agent, scenario, dataset, agent, answer, outcome,
                   events>>
    /\ UNCHANGED web

\* the loop of ChatCLI.start after run_scenario: the response is rendered and
\* the counter advanced, or the exception is printed and the loop continues
ChatRender ==
    /\ pc \in {"done", "failed"}
    /\ IF pc = "failed"
       THEN /\ chat' = [chat EXCEPT !.outputs = Append(@, ErrorLine(raised))]
            /\ raised' = NoError
       ELSE /\ chat' = [chat EXCEPT
                          !.outputs = @ \o ChatCLI_render_response(scenario.ticket_id, result),
                          !.counter = @ + 1]
            /\ UNCHANGED raised
    /\ pc' = "chat_prompt"
    /\ UNCHANGED <<dependencies, update_agent, scenario, dataset, agent, result, answer,
                   outcome, update_summary, schema_proposal, calls, events>>
    /\ UNCHANGED web

NextChat ==
    \/ ChatStart
    \/ ChatInput
    \/ RunScenario
    \/ AnswerQuestion
    \/ ExecutePlan
    \/ IncorporateFindings
    \/ ChatApplyEnrichment
    \/ ChatRender

SpecChat == InitChat /\ [][NextChat]_vars

\* the turn of the loop that ends a run of run_scenario
Rendered == pc \in {"done", "failed"} /\ pc' = "chat_prompt"

\* the dataset answered the question of the run: answer_question returned
\* the status answered
DatasetAnswered == answer # PyNone /\ answer.status = "answered"

\* C25: in a chat session whose dependencies the chat observers wrap, a
\* question the dataset answers makes ChatCLI.start print the status line of
\* its ticket with the status answered and no error line, and the counter
\* advances to the next ticket id
C25_AnsweredQuestionIsRendered ==
    [][(Rendered /\ chat.observers_attached /\ DatasetAnswered) =>
            /\ Len(chat'.outputs) > Len(chat.outputs)
            /\ chat'.outputs[Len(chat.outputs) + 1] =
                    StatusLine(scenario.ticket_id, "answered")
            /\ \A i \in (Len(chat.outputs) + 1)..Len(chat'.outputs) :
                    chat'.outputs[i].line # "error"
            /\ chat'.counter = chat.counter + 1]_vars

\* the session printed a TypeError for a question the dataset answered, and
\* asks the next question under the same ticket id
AnsweredQuestionPrintsError ==
    /\ pc = "chat_prompt"
    /\ DatasetAnswered
    /\ chat.outputs[Len(chat.outputs)] = ErrorLine(TypeError("got an unexpected keyword argument"))
    /\ ConversationTicket(chat.session_id, chat.counter) = scenario.ticket_id

\* a question the dataset did not answer and the follow-up did not either is
\* rendered with its status
UnansweredQuestionIsRendered ==
    /\ pc = "chat_prompt"
    /\ answer # PyNone /\ answer.status # "answered"
    /\ chat.outputs[Len(chat.outputs)] = [line |-> "blank"]
    /\ chat.counter = 2

(***************************************************************************)
(* The fallback of the enrichment payload to the facts of the agents       *)
(***************************************************************************)
\* the scenario carries no non-empty explicit enrichment: its facts are
\* absent or empty and its enriched_fields are absent or an empty mapping
NoExplicitEnrichment ==
    /\ "facts" \notin DOMAIN scenario \/ scenario.facts = ListV(<<>>)
    /\ "enriched_fields" \notin DOMAIN scenario \/ scenario.enriched_fields = DictV(<<>>)

\* C26: when the scenario carries no non-empty explicit enrichment and the
\* final result is answered with at least one fact, run_scenario invokes the
\* Fact Reconciler with the facts the agents derived
C26_DerivedFactsReachReconciler ==
    (PastEnrichment /\ NoExplicitEnrichment
        /\ result.status = "answered" /\ ListAt(result, "facts") # <<>>) =>
            calls.apply_enrichment = <<ListV(result.facts)>>

\* the same for the scenarios that carry no enriched_fields key at all
DerivedFactsReachReconcilerWithoutMapping ==
    (PastEnrichment /\ NoExplicitEnrichment /\ "enriched_fields" \notin DOMAIN scenario
        /\ result.status = "answered" /\ ListAt(result, "facts") # <<>>) =>
            calls.apply_enrichment = <<ListV(result.facts)>>

\* an empty enriched_fields mapping, an answer with facts, and no call of
\* the Fact Reconciler
EmptyMappingHidesDerivedFacts ==
    /\ pc = "done"
    /\ "enriched_fields" \in DOMAIN scenario /\ scenario.enriched_fields = DictV(<<>>)
    /\ result.status = "answered" /\ ListAt(result, "facts") # <<>>
    /\ calls.apply_enrichment = <<>>
    /\ "update" \notin DOMAIN result

(***************************************************************************)
(* The single batched write of apply_enrichment                            *)
(***************************************************************************)
\* the facts the summary reports as applied
AppliedFacts == ListAt(update_summary, "applied_facts")

\* the record writer is called at most once, exactly when a fact matched,
\* and the status tells which
OneBatchedWrite ==
    /\ Len(calls.update_record) <= 1
    /\ Len(calls.update_record) = 1 <=> AppliedFacts # <<>>
    /\ update_summary.status = (IF AppliedFacts # <<>> THEN "updated" ELSE "skipped")
    /\ Len(calls.update_record) = 1 =>
            /\ calls.update_record[1].record_id = scenario.record_id
            /\ DOMAIN calls.update_record[1].payload =
                    {AppliedFacts[i].column : i \in DOMAIN AppliedFacts}

\* C27: apply_enrichment calls the record writer at most once per call,
\* exactly once when at least one fact matched (the status is then updated,
\* otherwise skipped), and the value of every fact reported in applied_facts
\* is the value written for its column in that one payload, also when
\* several facts map to the same column
C27_AppliedFactsAreWritten ==
    Reconciled =>
        /\ OneBatchedWrite
        /\ \A i \in DOMAIN AppliedFacts :
                calls.update_record[1].payload[AppliedFacts[i].column] = AppliedFacts[i].value

\* the same with the written value required only of the last fact applied
\* to each column
LastAppliedFactIsWritten ==
    Reconciled =>
        /\ OneBatchedWrite
        /\ \A i \in DOMAIN AppliedFacts :
                (\A j \in DOMAIN AppliedFacts :
                        AppliedFacts[j].column = AppliedFacts[i].column => j <= i) =>
                    calls.update_record[1].payload[AppliedFacts[i].column] = AppliedFacts[i].value

\* two facts reported as applied to one column with different values, of
\* which only the second was written
AppliedFactOverwritten ==
    /\ Reconciled
    /\ Len(AppliedFacts) = 2 /\ Len(calls.update_record) = 1
    /\ AppliedFacts[1].column = AppliedFacts[2].column
    /\ AppliedFacts[1].value # AppliedFacts[2].value
    /\ calls.update_record[1].payload[AppliedFacts[1].column] = AppliedFacts[2].value

(***************************************************************************)
(* QueryAgent.answer_question called on its own, with and without a        *)
(* configured dataset catalog                                              *)
(***************************************************************************)
\* dataset_columns: no catalog, or a catalog that names a column twice and
\* leaves out the WEBSITE column of the rows
Catalogs ==
    { PyNone,
      ListV(<< <<"B","R","I","Z","O","_","I","D">>, <<"B","U","S","I","N","E","S","S","_","N","A","M","E">>, <<"b","u","s","i","n","e","s","s","_","n","a","m","e">>, <<"P","H","O","N","E">> >>) }

\* max_columns of the agent
ColumnLimits == {1, 3}

\* the replies of the completion client to the column-selection prompt: it
\* raises, names a column of the row, names a column nobody has, or names
\* more columns than the limit
SelectReplies ==
    { Raises,
      Replies(<<[columns |-> ListV(<<StrV(<<"w","e","b","s","i","t","e">>)>>)]>>),
      Replies(<<[columns |-> ListV(<<StrV(<<" ","f","a","x"," ">>), StrV(<<"B","u","s","i","n","e","s","s"," ","N","a","m","e">>)>>)]>>),
      Replies(<<[column_names |-> ListV(<<StrV(<<"b","r","i","z","o"," ","i","d">>), StrV(<<"b","u","s","i","n","e","s","s","-","n","a","m","e">>),
                                          StrV(<<"B","U","S","I","N","E","S","S","_","N","A","M","E">>), StrV(<<"p","h","o","n","e">>),
                                          StrV(<<"w","e","b","s","i","t","e">>)>>)]>>) }

\* the orders in which set(available_columns) can be iterated, one for each
\* lookup _build_column_lookup can build
ColumnOrders(available_columns) ==
    LET orders == Orders(Range(available_columns))
        lookups == {QueryAgent_build_column_lookup(o) : o \in orders}
    IN {CHOOSE o \in orders : QueryAgent_build_column_lookup(o) = l : l \in lookups}

\* the candidate column universe of the agent for the row the store answers
AvailableColumns ==
    IF dataset = <<>> THEN <<>>
    ELSE QueryAgent_list_available_columns(agent, dataset[1])

InitSelect ==
    /\ pc = "select"
    /\ dependencies \in { [AllPresent EXCEPT !.gpt_client = g] : g \in BOOLEAN }
    /\ update_agent = PyNone
    /\ scenario \in { [ticket_id |-> TicketId, question |-> q, record_id |-> RecordId] :
                            q \in Questions }
    /\ dataset \in Datasets
    /\ \E catalog \in Catalogs, limit \in ColumnLimits :
            agent = [QueryAgent_new(dependencies, <<"B","R","I","Z","O","_","I","D">>, <<"d","a","t","a","s","e","t">>)
                        EXCEPT !.dataset_columns = catalog, !.max_columns = limit]
    /\ result = PyNone /\ answer = PyNone /\ outcome = PyNone
    /\ update_summary = PyNone /\ schema_proposal = PyNone
    /\ calls = NoCalls
    /\ events = [query |-> <<>>, scraper |-> <<>>]
    /\ raised = NoError
    /\ chat = NoChat
    /\ web = NoWeb

\* agent.answer_question(ticket_id, question, record_id)
AnswerQuestionAlone ==
    /\ pc = "select"
    /\ \E order \in ColumnOrders(AvailableColumns),
          selection \in RepliesOf(agent.llm_client, SelectReplies),
          extraction \in RepliesOf(agent.llm_client, ExtractionReplies) :
       \E a \in {QueryAgent_answer_question(agent,
                    scenario.ticket_id, scenario.question, scenario.record_id,
                    [rows |-> dataset, order |-> order,
                     selection |-> selection, extraction |-> extraction])} :
            /\ result' = a.result
            /\ answer' = a.result
            /\ calls' = [calls EXCEPT !.run = @ \o a.run,
                                      !.flag_missing = @ \o a.flag_missing,
                                      !.generate = @ \o a.generate,
                                      !.generate_raised = @ \o RaisedStages(a.generate,
                                           [column_selection |-> selection,
                                            direct_answer |-> extraction])]
            /\ events' = [events EXCEPT !.query = @ \o a.events]
            /\ pc' = "selected"
    /\ UNCHANGED <<dependencies, update_agent, scenario, dataset, agent, outcome,
                   update_summary, schema_proposal, raised, chat>>
    /\ UNCHANGED web

NextSelect == AnswerQuestionAlone

SpecSelect == InitSelect /\ [][NextSelect]_vars

\* answer_question returned after selecting columns for a fetched row
Selected == pc = "selected" /\ result.status \notin {"record_not_found"}

\* the columns reported in the columns_inferred event
ColumnsInferred ==
    LET at == {i \in DOMAIN events.query : events.query[i].event = "columns_inferred"}
    IN IF at = {} THEN <<>> ELSE events.query[CHOOSE i \in at : TRUE].payload.columns

\* C28: every column answer_question selects (reported in columns_inferred
\* and returned as missing_columns) belongs to the candidate column universe,
\* the configured dataset catalog when there is one and the keys of the row
\* otherwise, and at most max_columns columns are selected, whether the
\* completion client or the heuristic fallback named them
C28_SelectedColumnsAreKnown ==
    Selected =>
        /\ Range(ColumnsInferred) \subseteq Range(AvailableColumns)
        /\ Range(ListAt(result, "missing_columns")) \subseteq Range(AvailableColumns)
        /\ ListAt(result, "missing_columns") \in {<<>>, ColumnsInferred}
        /\ Len(ColumnsInferred) <= agent.max_columns

\* what holds of the selection: its size, its reporting, and that no column
\* is selected twice
SelectionIsBounded ==
    Selected =>
        /\ ListAt(result, "missing_columns") \in {<<>>, ColumnsInferred}
        /\ Len(ColumnsInferred) <= agent.max_columns
        /\ \A i, j \in DOMAIN ColumnsInferred :
                ColumnsInferred[i] = ColumnsInferred[j] => i = j

\* the completion client named a column nobody has and the agent reports it
\* as a missing column of the record
UnknownColumnSelected ==
    /\ Selected
    /\ calls.generate # <<>> /\ calls.generate_raised = <<>>
    /\ ColumnsInferred # <<>>
    /\ ColumnsInferred[1] \notin Range(AvailableColumns)
    /\ ColumnsInferred[1] \notin Range(DictKeys(dataset[1]))

\* without a completion client the heuristic selects a key of the row that
\* the catalog does not list
UncataloguedColumnSelected ==
    /\ Selected /\ agent.dataset_columns # PyNone /\ ~agent.llm_client
    /\ \E i \in DOMAIN ColumnsInferred : ColumnsInferred[i] \notin Range(AvailableColumns)

(***************************************************************************)
(* The web frontend: SessionManager under concurrent ask_question handlers *)
(***************************************************************************)
\* the request handlers (threads of the server) at work at once
MaxHandlers == 2

\* the most questions asked in one behaviour
MaxAsks == 4

Handlers == 1..MaxHandlers

\* the session ids uuid4().hex[:8] can give, and the ids a client may send
SessionIdPool == { <<"s","1">>, <<"s","2">> }

\* SessionState(record_id, table_name, primary_key), counter = 0
SessionState(record_id, table_name, primary_key) ==
    [record_id |-> record_id, table_name |-> table_name, primary_key |-> primary_key,
     counter |-> 0]

\* a handler between two requests
IdleHandler == [pc |-> "idle", session_id |-> <<>>, state |-> PyNone, counter |-> 0]

\* the lock of the registry is held by nobody
Unlocked == 0

\* every variable of the run of a ticket, which the web frontend leaves alone
RunIdle ==
    /\ pc = "web"
    /\ dependencies = AllPresent
    /\ update_agent = PyNone /\ scenario = PyNone /\ dataset = <<>>
    /\ agent = PyNone /\ result = PyNone /\ answer = PyNone /\ outcome = PyNone
    /\ update_summary = PyNone /\ schema_proposal = PyNone
    /\ calls = NoCalls
    /\ events = [query |-> <<>>, scraper |-> <<>>]
    /\ raised = NoError
    /\ chat = NoChat

RunUnchanged ==
    UNCHANGED <<pc, dependencies, update_agent, scenario, dataset, agent, result, answer,
                outcome, update_summary, schema_proposal, calls, events, raised, chat>>

\* SessionManager.__init__: no session, the lock free
InitSessions ==
    /\ RunIdle
    /\ web = [sessions |-> EmptyDict, lock |-> Unlocked,
              handlers |-> [h \in Handlers |-> IdleHandler],
              asked |-> 0, reserved |-> <<>>]

\* SessionManager.get: None, or a new SessionState with the fields of the
\* registered one (shared tells whether it is the registered object itself)
SessionManager_get(sessions, session_id) ==
    IF session_id \notin DOMAIN sessions THEN PyNone
    ELSE [shared |-> FALSE,
          record_id |-> sessions[session_id].record_id,
          table_name |-> sessions[session_id].table_name,
          primary_key |-> sessions[session_id].primary_key,
          counter |-> sessions[session_id].counter]

\* SessionManager.create, which holds the lock from the choice of the id to
\* the registration
CreateSession ==
    /\ web.lock = Unlocked
    /\ \E session_id \in SessionIdPool \ DOMAIN web.sessions :
            web' = [web EXCEPT !.sessions =
                        Put(@, session_id, SessionState(RecordId, <<"d","a","t","a","s","e","t">>, <<"B","R","I","Z","O","_","I","D">>))]
    /\ RunUnchanged

\* a request POST /api/session/{session_id}/ask reaches a free handler
AskQuestion ==
    /\ web.asked < MaxAsks
    /\ \E h \in Handlers, session_id \in SessionIdPool :
            /\ web.handlers[h].pc = "idle"
            /\ web' = [web EXCEPT !.handlers[h] = [IdleHandler EXCEPT !.pc = "get",
                                                           !.session_id = session_id],
                                  !.asked = @ + 1]
    /\ RunUnchanged

\* ask_question: state = session_manager.get(session_id), under the lock;
\* 404 when there is no such session
GetSession ==
    /\ web.lock = Unlocked
    /\ \E h \in Handlers :
            /\ web.handlers[h].pc = "get"
            /\ \E state \in {SessionManager_get(web.sessions, web.handlers[h].session_id)} :
                    web' = [web EXCEPT !.handlers[h] =
                                IF state = PyNone THEN IdleHandler
                                ELSE [@ EXCEPT !.pc = "reserve", !.state = state]]
    /\ RunUnchanged

\* the holder of a SessionState that get returned assigns to its counter
SnapshotWrite ==
    /\ \E h \in Handlers :
            /\ web.handlers[h].pc = "reserve"
            /\ web.handlers[h].state.counter # MaxAsks + 1
            /\ web' = [web EXCEPT
                         !.handlers[h].state.counter = MaxAsks + 1,
                         !.sessions = IF web.handlers[h].state.shared
                                      THEN [@ EXCEPT ![web.handlers[h].session_id].counter =
                                                MaxAsks + 1]
                                      ELSE @]
    /\ RunUnchanged

\* reserve_ticket entered without taking the lock
ReserveAcquire_without_lock ==
    /\ \E h \in Handlers :
            /\ web.handlers[h].pc = "reserve"
            /\ web' = [web EXCEPT !.handlers[h].pc = "reserve_read"]
    /\ RunUnchanged

\* reserve_ticket: with self._lock
ReserveAcquire ==
    /\ web.lock = Unlocked
    /\ \E h \in Handlers :
            /\ web.handlers[h].pc = "reserve"
            /\ web' = [web EXCEPT !.lock = h, !.handlers[h].pc = "reserve_read"]
    /\ RunUnchanged

\* reserve_ticket: state = self._sessions.get(session_id), KeyError when
\* there is none, and the read of state.counter
ReserveRead ==
    /\ \E h \in Handlers :
            /\ web.handlers[h].pc = "reserve_read"
            /\ IF web.handlers[h].session_id \notin DOMAIN web.sessions
               THEN web' = [web EXCEPT !.lock = Unlocked, !.handlers[h] = IdleHandler]
               ELSE web' = [web EXCEPT
                              !.handlers[h].pc = "reserve_add",
                              !.handlers[h].counter =
                                    web.sessions[web.handlers[h].session_id].counter]
    /\ RunUnchanged

\* reserve_ticket: state.counter += 1, the write
ReserveAdd ==
    /\ \E h \in Handlers :
            /\ web.handlers[h].pc = "reserve_add"
            /\ web' = [web EXCEPT
                         !.handlers[h].pc = "reserve_return",
                         !.sessions[web.handlers[h].session_id].counter =
                                web.handlers[h].counter + 1]
    /\ RunUnchanged

\* reserve_ticket: return f"{session_id}-Q{state.counter:03d}", the lock
\* released; ask_question answers with the ticket id
ReserveReturn ==
    /\ \E h \in Handlers :
            /\ web.handlers[h].pc = "reserve_return"
            /\ web' = [web EXCEPT
                         !.lock = Unlocked,
                         !.handlers[h] = IdleHandler,
                         !.reserved = Append(@,
                            [handler |-> h,
                             session_id |-> web.handlers[h].session_id,
                             ticket_id |-> ConversationTicket(web.handlers[h].session_id,
                                    web.sessions[web.handlers[h].session_id].counter)])]
    /\ RunUnchanged

NextSessions ==
    \/ CreateSession
    \/ AskQuestion
    \/ GetSession
    \/ SnapshotWrite
    \/ ReserveAcquire
    \/ ReserveRead
    \/ ReserveAdd
    \/ ReserveReturn

SpecSessions == InitSessions /\ [][NextSessions]_vars

\* the reservations of a session, in the order they returned
ReservedOf(reserved, session_id) ==
    SelectSeq(reserved, LAMBDA r : r.session_id = session_id)

\* the handlers that have added to the counter of the session and not yet
\* returned
Returning(handlers, session_id) ==
    {h \in Handlers : handlers[h].pc = "reserve_return" /\ handlers[h].session_id = session_id}

\* C29: concurrent reserve_ticket calls on a session never return the same
\* ticket id: the n-th reservation of a session returns the id with counter
\* n, the counter of a session never decreases, and the SessionState that
\* SessionManager.get returned cannot be used to change the counter of the
\* registry (the counter is the number of reservations made)
C29_ReservationsAreDistinct ==
    [][/\ \A i, j \in DOMAIN web'.reserved :
                web'.reserved[i].ticket_id = web'.reserved[j].ticket_id => i = j
       /\ \A session_id \in DOMAIN web'.sessions :
            /\ \A n \in DOMAIN ReservedOf(web'.reserved, session_id) :
                    ReservedOf(web'.reserved, session_id)[n].ticket_id =
                        ConversationTicket(session_id, n)
            /\ session_id \in DOMAIN web.sessions =>
                    web'.sessions[session_id].counter >= web.sessions[session_id].counter
            /\ web'.sessions[session_id].counter =
                    Len(ReservedOf(web'.reserved, session_id))
                        + Cardinality(Returning(web'.handlers, session_id))]_vars

\* both handlers have reserved tickets of one session, one of them is adding
\* to its counter again while the other, whose SessionState was overwritten,
\* waits for the lock
C29_Witness ==
    /\ web # NoWeb
    /\ \E session_id \in DOMAIN web.sessions :
            /\ Len(ReservedOf(web.reserved, session_id)) >= 2
            /\ {ReservedOf(web.reserved, session_id)[n].handler :
                    n \in DOMAIN ReservedOf(web.reserved, session_id)} = Handlers
            /\ \E h, other \in Handlers :
                    /\ web.handlers[h].pc = "reserve_add"
                    /\ web.handlers[h].session_id = session_id
                    /\ web.handlers[other].pc = "reserve"
                    /\ web.handlers[other].session_id = session_id
                    /\ web.handlers[other].state.counter = MaxAsks + 1
                    /\ web.sessions[session_id].counter = 2

(***************************************************************************)
(* The web frontend: RealtimeBroker, the ResultStore and the workers that  *)
(* process the questions                                                   *)
(***************************************************************************)
\* the most timeline entries one ticket narrates before its result
MaxTimeline == 1

\* the most event streams opened in one behaviour
MaxQueues == 2

\* the tickets being processed, one worker thread each
TicketPool == { <<"s","1","-","Q","0","0","1">>, <<"s","1","-","Q","0","0","2">> }

TimelineEvent(n) == [type |-> "timeline", entry |-> n]

ResultEvent(ticket_id) == [type |-> "result", ticket_id |-> ticket_id]

\* d.get(k, default) of a dict kept as a function
GetOr(d, k, default) == IF k \in DOMAIN d THEN d[k] ELSE default

\* RealtimeBroker.__init__ and ResultStore.__init__; no worker has begun.
\* The coroutines subscribe, unsubscribe and _publish run on the one event
\* loop and none of them suspends (the lock is free whenever one starts and
\* the queues are unbounded), so each is one step of the loop
InitBroker ==
    /\ RunIdle
    /\ web = [started |-> FALSE,
              subscribers |-> EmptyDict,
              history |-> EmptyDict,
              queues |-> <<>>,
              scheduled |-> <<>>,
              results |-> EmptyDict,
              workers |-> [t \in TicketPool |-> [pc |-> "waiting", entries |-> 0]],
              published |-> [t \in TicketPool |-> <<>>]]

\* RealtimeBroker.publish from a worker thread: nothing before startup,
\* else the coroutine _publish(ticket_id, event) is scheduled on the loop
RealtimeBroker_publish(broker, ticket_id, event) ==
    IF ~broker.started THEN broker
    ELSE [broker EXCEPT
            !.scheduled = Append(@, [ticket_id |-> ticket_id, event |-> event]),
            !.published[ticket_id] = Append(@, event)]

\* RealtimeBroker.startup, run by the application at its start
BrokerStartup ==
    /\ ~web.started
    /\ web' = [web EXCEPT !.started = TRUE]
    /\ RunUnchanged

\* _process_question begins on a worker thread
ProcessQuestion ==
    /\ \E t \in TicketPool :
            /\ web.workers[t].pc = "waiting"
            /\ web' = [web EXCEPT !.workers[t].pc = "running"]
    /\ RunUnchanged

\* TimelineRecorder.add during run_scenario: broker.publish_timeline
PublishTimeline ==
    /\ \E t \in TicketPool :
            /\ web.workers[t].pc = "running"
            /\ web.workers[t].entries < MaxTimeline
            /\ web' = [RealtimeBroker_publish(web, t, TimelineEvent(web.workers[t].entries + 1))
                            EXCEPT !.workers[t].entries = @ + 1]
    /\ RunUnchanged

\* _process_question: result_store.set(ticket_id, payload)
StoreResult ==
    /\ \E t \in TicketPool :
            /\ web.workers[t].pc = "running"
            /\ web' = [web EXCEPT !.workers[t].pc = "stored",
                                  !.results = Put(@, t, [entries |-> web.workers[t].entries])]
    /\ RunUnchanged

\* _process_question: broker.publish_result(ticket_id, result, timeline)
PublishResult ==
    /\ \E t \in TicketPool :
            /\ web.workers[t].pc = "stored"
            /\ web' = [RealtimeBroker_publish(web, t, ResultEvent(t))
                            EXCEPT !.workers[t].pc = "done"]
    /\ RunUnchanged

\* _publish that hands the event to the subscribers and keeps no history
RunPublish_without_history ==
    /\ web.scheduled # <<>>
    /\ \E ticket_id \in {Head(web.scheduled).ticket_id}, event \in {Head(web.scheduled).event} :
       \E subscribers \in {GetOr(web.subscribers, ticket_id, {})} :
            web' = [web EXCEPT
                      !.scheduled = Tail(@),
                      !.queues = [q \in DOMAIN @ |->
                                    IF q \in subscribers
                                    THEN [@[q] EXCEPT !.items = Append(@, event)]
                                    ELSE @[q]]]
    /\ RunUnchanged

\* RealtimeBroker._publish, the next coroutine scheduled on the loop
RunPublish ==
    /\ web.scheduled # <<>>
    /\ \E ticket_id \in {Head(web.scheduled).ticket_id}, event \in {Head(web.scheduled).event} :
       \E subscribers \in {GetOr(web.subscribers, ticket_id, {})} :
            web' = [web EXCEPT
                      !.scheduled = Tail(@),
                      !.history = Put(@, ticket_id, Append(GetOr(@, ticket_id, <<>>), event)),
                      !.queues = [q \in DOMAIN @ |->
                                    IF q \in subscribers
                                    THEN [@[q] EXCEPT !.items = Append(@, event)]
                                    ELSE @[q]]]
    /\ RunUnchanged

\* stream_ticket: queue = await broker.subscribe(ticket_id)
Subscribe ==
    /\ Len(web.queues) < MaxQueues
    /\ \E ticket_id \in TicketPool :
            web' = [web EXCEPT
                      !.subscribers = Put(@, ticket_id,
                                          GetOr(@, ticket_id, {}) \cup {Len(web.queues) + 1}),
                      !.queues = Append(@, [ticket_id |-> ticket_id,
                                            items |-> GetOr(web.history, ticket_id, <<>>),
                                            backlog |-> Len(GetOr(web.history, ticket_id, <<>>)),
                                            read |-> 0,
                                            finished |-> FALSE])]
    /\ RunUnchanged

\* stream_ticket: event = await queue.get(), sent to the client; the result
\* event ends the stream
ReadEvent ==
    /\ \E q \in DOMAIN web.queues :
            /\ ~web.queues[q].finished
            /\ q \in GetOr(web.subscribers, web.queues[q].ticket_id, {})
            /\ web.queues[q].read < Len(web.queues[q].items)
            /\ web' = [web EXCEPT
                         !.queues[q].read = @ + 1,
                         !.queues[q].finished =
                            web.queues[q].items[web.queues[q].read + 1].type = "result"]
    /\ RunUnchanged

\* stream_ticket: await broker.unsubscribe(ticket_id, queue), after the
\* result event or when the client went away
Unsubscribe ==
    /\ \E q \in DOMAIN web.queues :
       \E ticket_id \in {web.queues[q].ticket_id} :
            /\ q \in GetOr(web.subscribers, ticket_id, {})
            /\ web' = [web EXCEPT
                         !.subscribers =
                            IF GetOr(@, ticket_id, {}) = {} THEN @
                            ELSE IF @[ticket_id] \ {q} = {} THEN Pop(@, ticket_id)
                            ELSE Put(@, ticket_id, @[ticket_id] \ {q}),
                         !.queues[q].finished = TRUE]
    /\ RunUnchanged

NextBroker ==
    \/ BrokerStartup
    \/ ProcessQuestion
    \/ PublishTimeline
    \/ StoreResult
    \/ PublishResult
    \/ RunPublish
    \/ Subscribe
    \/ ReadEvent
    \/ Unsubscribe

SpecBroker == InitBroker /\ [][NextBroker]_vars

\* the events of the ticket scheduled on the loop and not yet run
Pending(ticket_id) ==
    LET mine == SelectSeq(web.scheduled, LAMBDA s : s.ticket_id = ticket_id)
    IN [i \in DOMAIN mine |-> mine[i].event]

IsPrefix(s, t) == Len(s) <= Len(t) /\ s = SubSeq(t, 1, Len(s))

\* C30: every event published for a ticket after the broker has started is
\* put on every queue subscribed to the ticket exactly once and in publish
\* order, whether the queue subscribed before or after the publication (a
\* late subscriber first gets the stored history), under any interleaving of
\* subscribe, unsubscribe and publish; and the result of a ticket is in the
\* ResultStore before its result event is published
C30_EventsReachSubscribersInOrder ==
    /\ \A q \in DOMAIN web.queues :
        LET ticket_id == web.queues[q].ticket_id
        IN /\ IsPrefix(web.queues[q].items, web.published[ticket_id])
           /\ q \in GetOr(web.subscribers, ticket_id, {}) =>
                web.queues[q].items \o Pending(ticket_id) = web.published[ticket_id]
    /\ \A ticket_id \in TicketPool :
        /\ GetOr(web.history, ticket_id, <<>>) \o Pending(ticket_id) = web.published[ticket_id]
        /\ (\E i \in DOMAIN web.published[ticket_id] :
                web.published[ticket_id][i].type = "result") =>
                    ticket_id \in DOMAIN web.results
        /\ web.workers[ticket_id].pc = "done" => ticket_id \in DOMAIN web.results

\* two queues of one ticket, the first subscribed before anything was
\* published and the second after the timeline entry; both hold the entry
\* and the result, in order, and the client of the second has read them all
C30_Witness ==
    /\ web # NoWeb /\ "queues" \in DOMAIN web
    /\ Len(web.queues) = 2
    /\ web.queues[1].ticket_id = web.queues[2].ticket_id
    /\ web.queues[1].items = << TimelineEvent(1), ResultEvent(web.queues[1].ticket_id) >>
    /\ web.queues[2].items = web.queues[1].items
    /\ web.queues[2].read = 2 /\ web.queues[2].finished
    /\ web.queues[1].backlog = 0 /\ web.queues[2].backlog = 1
    /\ web.queues[1].read = 0
    /\ web.subscribers[web.queues[1].ticket_id] = {1, 2}

=============================================================================
